---- MODULE Spec2Model ----
(***************************************************************************)
(* Steam family library aggregator: the library fetcher with its fallback, *)
(* the orchestrating pipeline (run_pipeline), metadata resolution          *)
(* (fetch_app_meta), the size parser and the host throttle.                *)
(*                                                                         *)
(* Each component is a state machine over its own group of variables; a    *)
(* specification runs one component and keeps the other groups idle.       *)
(*                                                                         *)
(* Conventions: a text is a sequence of one-character strings; an optional *)
(* number is Absent (None) or Some(n); an optional word is "None" or the   *)
(* word; usage hours are integers counting tenths of an hour; sizes are    *)
(* integers counting hundredths of a GB; time is an integer count of clock *)
(* ticks.                                                                  *)
(***************************************************************************)
EXTENDS Integers, Sequences, FiniteSets, TLC

VARIABLES
    \* ---- get_owned_games_for_steamid (one call) ----
    f_pc,          \* position in get_owned_games_for_steamid
    f_games,       \* its local `games`
    f_xml_games,   \* what the structured feed step produced (history)
    f_requests,    \* the session.get calls issued, in order
    f_raised,      \* for each step taken, whether the source it called raised (history)
    f_html,        \* how the embedded page request ended, which search found the blob
                   \* and how the blob parsed; Absent if not requested (history)
    f_result       \* the returned list (<<>> before the return)

fetchVars == <<f_pc, f_games, f_xml_games, f_requests, f_raised, f_html, f_result>>

VARIABLES
    \* ---- parse_storage_requirement_gb_from_html (one call) ----
    s_pc,          \* "input" before the call, "parsed" after
    s_text,        \* the argument `html`
    s_result       \* the returned size (hundredths of a GB) or Absent

sizeVars == <<s_pc, s_text, s_result>>

VARIABLES
    \* ---- fetch_app_meta (one call) ----
    m_pc,                   \* position in fetch_app_meta
    m_need_size_fallback,   \* the argument need_size_fallback
    m_check_availability,   \* the argument check_availability
    m_loc,                  \* the locals app_type, release_year, size_gb, delisted
    m_step1,                \* the locals as step 1 left them (history)
    m_fail1,                \* where step 1 raised, and what the response stated (history)
    m_page,                 \* what the storefront page states, Absent if not loaded (history)
    m_requests,             \* the http_get_store calls issued, in order
    m_result                \* Absent, or Some(returned record)

metaVars ==
    <<m_pc, m_need_size_fallback, m_check_availability, m_loc, m_step1, m_fail1, m_page,
      m_requests, m_result>>

VARIABLES
    \* ---- utils._HostThrottle and the threads calling http_get_* ----
    clock,         \* time.monotonic(), in ticks
    t_last,        \* _THROTTLE.last: host class -> reserved time
    t_min_delay,   \* _THROTTLE.min_delay: host class -> ticks
    t_jitter,      \* _THROTTLE.jitter_ms, in ticks
    t_lock,        \* holder of _THROTTLE.lock, 0 when free
    t_thread,      \* per thread: position in http_get_*, its host class, `now`, wake-up time
    t_calls,       \* number of http_get_* calls started
    t_hist         \* the store host class: first entry into wait, first and last request start, requests issued

thrVars == <<clock, t_last, t_min_delay, t_jitter, t_lock, t_thread, t_calls, t_hist>>

VARIABLES
    \* ---- pipeline.run_pipeline (one run) ----
    p_pc,                  \* position in run_pipeline
    p_cfg,                 \* the argument cfg
    p_nlines,              \* lines of the ids file read so far
    p_vanity_lines,        \* of these, /id/<vanity> lines handed to the resolver (history)
    p_entries,             \* parse_ids_file: `out`, later `entries`
    p_seen,                \* parse_ids_file: `seen`
    p_req,                 \* requests issued so far, per endpoint (history)
    p_i,                   \* index of the running for-loop (entries, then targets)
    p_combined,            \* `combined`: appid -> name, owners, hours (tenths)
    p_ok_count,            \* `ok_count`
    p_failed,              \* `failed`
    p_libs,                \* what each account's fetch returned (history)
    p_queue,               \* submitted tasks no worker has taken yet
    p_running,             \* appids whose task a worker is running
    p_metas,               \* `metas`
    p_targets,             \* `targets`
    p_enrichments,         \* `enrichments`
    p_last_update_years,   \* `last_update_years`
    p_rows,                \* `rows`
    p_error                \* the exception that ended the run, "" if none

pipeVars ==
    <<p_pc, p_cfg, p_nlines, p_vanity_lines, p_entries, p_seen, p_req, p_i, p_combined,
      p_ok_count, p_failed, p_libs, p_queue, p_running, p_metas, p_targets,
      p_enrichments, p_last_update_years, p_rows, p_error>>

VARIABLES
    \* ---- enrich.fetch_review_summary (one call) ----
    rv_pc,         \* position in fetch_review_summary
    rv_recent,     \* what the recent-window query answered, Absent if not issued (history)
    rv_overall,    \* what the all-time query answered, Absent if not issued (history)
    rv_requests,   \* the http_get_store calls issued, in order
    rv_result      \* Absent, or Some(returned record)

reviewVars == <<rv_pc, rv_recent, rv_overall, rv_requests, rv_result>>

VARIABLES
    \* ---- steam_export_with_reviews_v2.enrich_with_reviews (one call) ----
    sa_pc,         \* position in enrich_with_reviews
    sa_task,       \* per game: the submitted fetch_recent_reviews_for_app call
    sa_out         \* `out`

standaloneVars == <<sa_pc, sa_task, sa_out>>

VARIABLES
    \* ---- enrich.fetch_last_update_year (one call) ----
    n_pc,          \* "request" before the call, "done" after
    n_news,        \* what the news endpoint answered, Absent before the request (history)
    n_result       \* the returned year or Absent

newsVars == <<n_pc, n_news, n_result>>

VARIABLES
    \* ---- input_parser.normalize_to_steamid64 (successive calls) ----
    z_calls        \* the calls so far, the running one last: argument, requests, response, result

resolveVars == <<z_calls>>

VARIABLES
    \* ---- input_parser.parse_ids_file (one call) ----
    q_pc,          \* position in parse_ids_file
    q_lines,       \* the lines read so far, each with what its identifier resolved to (history)
    q_out,         \* `out`
    q_seen         \* `seen`

idsFileVars == <<q_pc, q_lines, q_out, q_seen>>

VARIABLES
    \* ---- run_pipeline: the order of `rows` (pipeline.py 96-106, 156-177) ----
    o_pc,          \* "build" while rows are appended, "sorted" after rows.sort
    o_map,         \* the aggregated items (fixed during the stage)
    o_rows,        \* `rows`, in the order the metadata tasks completed
    o_sorted       \* `rows` after rows.sort

orderVars == <<o_pc, o_map, o_rows, o_sorted>>

VARIABLES
    \* ---- run_pipeline: enrich_one on the pool threads (pipeline.py 110-153) ----
    e_pc,                \* "pool" while the executor runs, "done" after line 153
    e_cfg,               \* cfg.workers, cfg.include_reviews, cfg.include_last_update
    e_left,              \* the targets no thread has taken yet
    e_worker,            \* per pool thread: position in enrich_one, the value read, the duration
    e_reviews_secs,      \* `reviews_secs`
    e_last_update_secs,  \* `last_update_secs`
    e_sums,              \* the sum of the per-item durations of each kind (history)
    e_timings            \* timings.reviews and timings.last_update

timingVars ==
    <<e_pc, e_cfg, e_left, e_worker, e_reviews_secs, e_last_update_secs, e_sums, e_timings>>

VARIABLES
    \* ---- run_pipeline: the accounts of one run (input_parser.py 15-35, pipeline.py 33-71) ----
    a_pc,          \* "parse" in parse_ids_file, "fetch" in the loop over entries, "done" after it
    a_lines,       \* the lines read so far: identifier form and what it resolved to (history)
    a_entries,     \* `out`, later `entries`
    a_seen,        \* `seen`
    a_i,           \* index of the loop over entries
    a_fetched,     \* the ids whose library was requested, in order (history)
    a_merged       \* the ids whose items were merged into `combined`, in order (history)

accountVars == <<a_pc, a_lines, a_entries, a_seen, a_i, a_fetched, a_merged>>

vars == <<fetchVars, sizeVars, metaVars, thrVars, pipeVars, reviewVars, standaloneVars, newsVars, resolveVars, idsFileVars, orderVars, timingVars, accountVars>>

\* the variables a component leaves alone
notFetch == <<sizeVars, metaVars, thrVars, pipeVars, reviewVars, standaloneVars, newsVars, resolveVars, idsFileVars, orderVars, timingVars, accountVars>>

notSize == <<fetchVars, metaVars, thrVars, pipeVars, reviewVars, standaloneVars, newsVars, resolveVars, idsFileVars, orderVars, timingVars, accountVars>>

notMeta == <<fetchVars, sizeVars, thrVars, pipeVars, reviewVars, standaloneVars, newsVars, resolveVars, idsFileVars, orderVars, timingVars, accountVars>>

notThrottle == <<fetchVars, sizeVars, metaVars, pipeVars, reviewVars, standaloneVars, newsVars, resolveVars, idsFileVars, orderVars, timingVars, accountVars>>

\* run_pipeline touches the throttle only through set_throttle_config
notPipe ==
    <<fetchVars, sizeVars, metaVars, clock, t_last, t_lock, t_thread, t_calls, t_hist,
      reviewVars, standaloneVars, newsVars, resolveVars, idsFileVars, orderVars,
      timingVars, accountVars>>

notReview == <<fetchVars, sizeVars, metaVars, thrVars, pipeVars, standaloneVars, newsVars, resolveVars, idsFileVars, orderVars, timingVars, accountVars>>

notStandalone == <<fetchVars, sizeVars, metaVars, thrVars, pipeVars, reviewVars, newsVars, resolveVars, idsFileVars, orderVars, timingVars, accountVars>>

notNews == <<fetchVars, sizeVars, metaVars, thrVars, pipeVars, reviewVars, standaloneVars, resolveVars, idsFileVars, orderVars, timingVars, accountVars>>

notResolve == <<fetchVars, sizeVars, metaVars, thrVars, pipeVars, reviewVars, standaloneVars, newsVars, idsFileVars, orderVars, timingVars, accountVars>>

notIdsFile == <<fetchVars, sizeVars, metaVars, thrVars, pipeVars, reviewVars, standaloneVars, newsVars, resolveVars, orderVars, timingVars, accountVars>>

notOrder == <<fetchVars, sizeVars, metaVars, thrVars, pipeVars, reviewVars, standaloneVars, newsVars, resolveVars, idsFileVars, timingVars, accountVars>>

notTiming == <<fetchVars, sizeVars, metaVars, thrVars, pipeVars, reviewVars, standaloneVars, newsVars, resolveVars, idsFileVars, orderVars, accountVars>>

notAccount == <<fetchVars, sizeVars, metaVars, thrVars, pipeVars, reviewVars, standaloneVars, newsVars, resolveVars, idsFileVars, orderVars, timingVars>>

None == "None"

Absent == <<>>

Some(v) == <<v>>

(***************************************************************************)
(* Bounds of the model.                                                    *)
(***************************************************************************)
MaxNodes == 2      \* entries in one upstream item list
MaxPhrases == 2    \* phrases in one requirements text
MaxCalls == 3      \* http_get_* calls in one run of the throttle
MaxTime == 4       \* last clock tick
MaxLines == 3      \* lines of the ids file

(***************************************************************************)
(* Small text helpers.                                                     *)
(***************************************************************************)
Digits == <<"0", "1", "2", "3", "4", "5", "6", "7", "8", "9">>

IsDigit(c) == \E i \in 1..10 : Digits[i] = c

DigitVal(c) == (CHOOSE i \in 1..10 : Digits[i] = c) - 1

RECURSIVE LStrip(_)
LStrip(s) == IF s # <<>> /\ Head(s) = " " THEN LStrip(Tail(s)) ELSE s

RECURSIVE RStrip(_)
RStrip(s) ==
    IF s # <<>> /\ s[Len(s)] = " " THEN RStrip(SubSeq(s, 1, Len(s) - 1)) ELSE s

\* str.strip()
Strip(s) == RStrip(LStrip(s))

RECURSIVE DigitsValue(_)
\* the integer a run of decimal digits denotes
DigitsValue(s) ==
    IF s = <<>> THEN 0
    ELSE 10 * DigitsValue(SubSeq(s, 1, Len(s) - 1)) + DigitVal(s[Len(s)])

AllDigits(s) == \A i \in 1..Len(s) : IsDigit(s[i])

\* position of the first "." of s, or Len(s) + 1
DotPos(s) ==
    IF \E i \in 1..Len(s) : s[i] = "."
    THEN CHOOSE i \in 1..Len(s) : s[i] = "." /\ \A j \in 1..(i - 1) : s[j] # "."
    ELSE Len(s) + 1

\* float(s) accepts s: an optional sign, digits with at most one "." and at
\* least one digit (the model's texts carry at most two fractional digits)
IsFloatText(s) ==
    LET u == IF s # <<>> /\ Head(s) \in {"-", "+"} THEN Tail(s) ELSE s
        p == DotPos(u)
        ip == SubSeq(u, 1, p - 1)
        fp == SubSeq(u, p + 1, Len(u))
    IN  /\ AllDigits(ip) /\ AllDigits(fp)
        /\ Len(ip) + Len(fp) >= 1
        /\ Len(fp) <= 2

\* float(s) in hundredths, for a text IsFloatText accepts
FloatHundredths(s) ==
    LET neg == s # <<>> /\ Head(s) = "-"
        u == IF s # <<>> /\ Head(s) \in {"-", "+"} THEN Tail(s) ELSE s
        p == DotPos(u)
        ip == SubSeq(u, 1, p - 1)
        fp == SubSeq(u, p + 1, Len(u))
        frac == IF Len(fp) = 1 THEN 10 * DigitsValue(fp) ELSE DigitsValue(fp)
        v == 100 * DigitsValue(ip) + frac
    IN  IF neg THEN 0 - v ELSE v

\* float(s) in tenths, for a text with at most one fractional digit
FloatTenths(s) == FloatHundredths(s) \div 10

\* utils.parse_hours of a text (a missing value, None, is the empty text:
\* both give 0.0): strip, drop the thousands separators, float() of the
\* rest, 0.0 for a blank or unparsable text
parse_hours(val) ==
    LET s == SelectSeq(Strip(val), LAMBDA c : c # ",")
    IN  IF s = <<>> THEN 0
        ELSE IF IsFloatText(s) THEN FloatTenths(s) ELSE 0

\* str(n) of a small non-negative integer
IntText(n) == IF n < 10 THEN <<Digits[n + 1]>> ELSE <<Digits[(n \div 10) + 1], Digits[(n % 10) + 1]>>

\* the sequences over S of length at most n
SeqUpTo(S, n) == UNION {[1..k -> S] : k \in 0..n}

\* a call that raised, and a call that returned v
Raised == [raised |-> TRUE, value |-> <<>>]

Returned(v) == [raised |-> FALSE, value |-> v]

(***************************************************************************)
(* Upstream values of the library sources.                                 *)
(***************************************************************************)
Foo == <<"F", "o", "o">>

Bar == <<"B", "a", "r">>

Blank == <<" ">>

\* usage texts: "3", "2.5", "1,024.5", blank, not a number
HoursTexts == {<<"3">>, <<"2", ".", "5">>, <<"1", ",", "0", "2", "4", ".", "5">>, Blank, <<"n", "/", "a">>}

\* a <game> node of the structured feed: the text of its id tag, of <name>
\* and of <hoursOnRecord> (<<>>: the tag is missing or empty)
XmlNodes ==
    [id : {Blank, <<"1">>, <<" ", "2">>},
     name : {<<>>, Blank, Foo, <<"B", "a", "r", " ">>},
     hoursOnRecord : {<<>>, <<"3">>, <<"1", ",", "0", "2", "4", ".", "5">>}]

\* a response to the structured feed request: how the request ended, where
\* the <game> nodes sit (1: gamesList/games/game, 2: games/game, 3: game),
\* which tag carries the id, and the nodes
XmlResponses ==
    [status : {"neterr", "http_error", "bad_xml"}, shape : {3}, idTag : {"appID"},
     nodes : {<<>>}]
    \cup [status : {"ok"}, shape : 1..3, idTag : {"appID", "appId", "appId64", "id"},
          nodes : SeqUpTo(XmlNodes, MaxNodes)]

\* an entry of the embedded rgGames array: g.get("appid") or g.get("appID")
\* (0: missing or zero), g.get("name") or g.get("friendly_name") (<<>>:
\* missing or empty), g.get("hours_forever") (<<>>: missing; "-3" is a text
\* float() accepts, as it accepts every signed decimal)
RgEntries ==
    [appid : {0, 1, 2},
     name : {<<>>, Blank, Foo},
     hours_forever : {<<>>, <<"2">>, <<"1", ",", "0", "2", "4", ".", "5">>, <<"-", "3">>}]

\* a response to the embedded page request: how the request ended, which
\* search finds the blob ("strict", "loose", "none"), how the blob parses
\* ("valid", "trailing_comma": valid once the trailing separator is removed,
\* "invalid"), and the array the blob denotes
HtmlResponses ==
    [status : {"neterr", "http_error"}, blob : {"none"}, json : {"valid"}, arr : {<<>>}]
    \cup [status : {"ok"}, blob : {"none"}, json : {"valid"}, arr : {<<>>}]
    \cup [status : {"ok"}, blob : {"strict", "loose"}, json : {"invalid"}, arr : {<<>>}]
    \cup [status : {"ok"}, blob : {"strict", "loose"}, json : {"valid", "trailing_comma"},
          arr : SeqUpTo(RgEntries, MaxNodes)]

(***************************************************************************)
(* steam_fetch: the two sources and the fallback between them.             *)
(***************************************************************************)
\* root.findall(pattern k): pattern 1 is the most specific, pattern 3 finds
\* every <game> node
FindAll(resp, k) == IF resp.shape <= k THEN resp.nodes ELSE <<>>

\* txt(tag): the stripped text of the node's tag, "" when missing
Txt(t) == Strip(t)

\* the id of a node: txt("appID") or txt("appId") or txt("appId64")
NodeAppId(resp, g) ==
    IF resp.idTag \in {"appID", "appId", "appId64"} THEN Txt(g.id) ELSE <<>>

RECURSIVE XmlGames(_, _)
\* the loop of fetch_games_xml over the nodes
XmlGames(resp, nodes) ==
    IF nodes = <<>> THEN <<>>
    ELSE LET g == Head(nodes)
             appid == NodeAppId(resp, g)
             name == Txt(g.name)
             hours_on_record == parse_hours(Txt(g.hoursOnRecord))
             rest == XmlGames(resp, Tail(nodes))
         IN  IF appid # <<>> /\ name # <<>>
             THEN <<[appid |-> appid, name |-> name,
                     hours_on_record |-> hours_on_record]>> \o rest
             ELSE rest

fetch_games_xml(resp) ==
    IF resp.status # "ok" THEN Raised
    ELSE LET nodes == IF FindAll(resp, 1) # <<>> THEN FindAll(resp, 1)
                      ELSE IF FindAll(resp, 2) # <<>> THEN FindAll(resp, 2)
                      ELSE FindAll(resp, 3)
         IN  Returned(XmlGames(resp, nodes))

RECURSIVE RgGames(_)
\* the loop of fetch_games_html_rg over the parsed array
RgGames(arr) ==
    IF arr = <<>> THEN <<>>
    ELSE LET g == Head(arr)
             hours == parse_hours(g.hours_forever)
             rest == RgGames(Tail(arr))
         IN  IF g.appid # 0 /\ g.name # <<>>
             THEN <<[appid |-> IntText(g.appid), name |-> g.name,
                     hours_on_record |-> hours]>> \o rest
             ELSE rest

fetch_games_html_rg(resp) ==
    IF resp.status # "ok" THEN Raised
    ELSE IF resp.blob = "none" THEN Returned(<<>>)
    ELSE IF resp.json = "invalid" THEN Raised
    ELSE Returned(RgGames(resp.arr))

\* `if not games`: the fallback is needed
NeedsFallbackAlways(games) == TRUE

NeedsFallback(games) == games = <<>>

\* try: ... except Exception: games = []
OrEmpty(r) == IF r.raised THEN <<>> ELSE r.value

\* get_owned_games_for_steamid as a function of the two upstream responses
get_owned_games_for_steamid(xml, html) ==
    LET games == OrEmpty(fetch_games_xml(xml))
    IN  IF NeedsFallback(games) THEN OrEmpty(fetch_games_html_rg(html)) ELSE games

(***************************************************************************)
(* One call of get_owned_games_for_steamid, step by step.                  *)
(***************************************************************************)
FetchStart ==
    /\ f_pc = "try_xml"
    /\ f_games = <<>>
    /\ f_xml_games = <<>>
    /\ f_requests = <<>>
    /\ f_raised = <<>>
    /\ f_html = Absent
    /\ f_result = <<>>

FetchIdle ==
    /\ f_pc = "idle"
    /\ f_games = <<>>
    /\ f_xml_games = <<>>
    /\ f_requests = <<>>
    /\ f_raised = <<>>
    /\ f_html = Absent
    /\ f_result = <<>>

\* a handler that lets the exception through
CaughtNever(r) == FALSE

\* `except Exception`: every exception a source raises (a request error, an
\* HTTP error status, a parse error, a member of the wrong shape) is caught
CaughtByExcept(r) == r.raised

\* lines 69-73: the structured feed request
TryXml ==
    /\ f_pc = "try_xml"
    /\ \E resp \in XmlResponses :
          LET r == fetch_games_xml(resp)
          IN  /\ f_raised' = Append(f_raised, r.raised)
              /\ IF r.raised /\ ~CaughtByExcept(r)
                 THEN /\ f_pc' = "raised"
                      /\ UNCHANGED <<f_games, f_xml_games>>
                 ELSE /\ f_games' = OrEmpty(r)
                      /\ f_xml_games' = f_games'
                      /\ f_pc' = "check"
    /\ f_requests' = Append(f_requests, "xml")
    /\ UNCHANGED <<f_html, f_result>>
    /\ UNCHANGED notFetch

\* lines 74-79: the embedded page request
TryHtml ==
    /\ f_pc = "check"
    /\ NeedsFallback(f_games)
    /\ \E resp \in HtmlResponses :
          LET r == fetch_games_html_rg(resp)
          IN  /\ f_raised' = Append(f_raised, r.raised)
              /\ f_html' = Some([status |-> resp.status, blob |-> resp.blob,
                                 json |-> resp.json])
              /\ IF r.raised /\ ~CaughtByExcept(r)
                 THEN /\ f_pc' = "raised"
                      /\ UNCHANGED f_games
                 ELSE /\ f_games' = OrEmpty(r)
                      /\ f_pc' = "return"
    /\ f_requests' = Append(f_requests, "html")
    /\ UNCHANGED <<f_xml_games, f_result>>
    /\ UNCHANGED notFetch

\* line 80
FetchReturn ==
    /\ \/ f_pc = "return"
       \/ f_pc = "check" /\ ~NeedsFallback(f_games)
    /\ f_result' = f_games
    /\ f_pc' = "done"
    /\ UNCHANGED <<f_games, f_xml_games, f_requests, f_raised, f_html>>
    /\ UNCHANGED notFetch

FetchNext == TryXml \/ TryHtml \/ FetchReturn

(***************************************************************************)
(* enrich.parse_storage_requirement_gb_from_html and the unit conversions. *)
(*                                                                         *)
(* A requirements text is a sequence of phrases "<label>[:] <number>       *)
(* <unit>", with or without markup around the label; sizes are hundredths  *)
(* of a GB.                                                                *)
(***************************************************************************)
\* round(a / b) to the nearest integer, ties to even (Python's round)
RoundDiv(a, b) ==
    LET q == a \div b
        r == a % b
    IN  IF 2 * r < b THEN q
        ELSE IF 2 * r > b THEN q + 1
        ELSE IF q % 2 = 0 THEN q ELSE q + 1

\* utils.mb_gb: round(value / 1024.0, 2), value in hundredths of a MB
mb_gb(value) == RoundDiv(value, 1024)

\* utils.tb_gb: round(value * 1024.0, 2), value in hundredths of a TB
tb_gb_decimal(value) == value * 1000

tb_gb(value) == value * 1024

\* unit.upper()
Upper(unit) ==
    CASE unit \in {"TB", "tb"} -> "TB"
      [] unit \in {"GB", "gb", "Gb"} -> "GB"
      [] unit \in {"GiB", "gib"} -> "GIB"
      [] unit \in {"MB", "mb"} -> "MB"
      [] OTHER -> unit

\* lines 74-81: the value of one match in hundredths of a GB
ConvertSize(num, unit) ==
    LET v == FloatHundredths(num)
        u == Upper(unit)
    IN  IF u = "MB" THEN mb_gb(v)
        ELSE IF u \in {"GB", "GIB"} THEN v
        ELSE IF u = "TB" THEN tb_gb(v)
        ELSE v

\* the (TB|GB|GiB|MB) group, case-insensitive
UnitMatches(unit) == Upper(unit) \in {"TB", "GB", "GIB", "MB"}

\* the labels the three patterns look for
PatternLabels == <<{"Storage"}, {"Disk Space", "Hard Space"}, {"free space"}>>

\* the amounts a phrase may state
Amounts ==
    {[num |-> <<"1", "0", "2", "4", "0">>, unit |-> "MB"],
     [num |-> <<"1", "0">>, unit |-> "GB"],
     [num |-> <<"0", ".", "0", "1">>, unit |-> "TB"],
     [num |-> <<"2", ".", "5">>, unit |-> "GiB"],
     [num |-> <<"7", "0", "0">>, unit |-> "mb"],
     [num |-> <<"4">>, unit |-> "MB"],
     [num |-> <<"6", "4">>, unit |-> "KB"]}

Labels == {"Storage", "Hard Space", "free space", "Memory", ""}

Phrases == [label : Labels, colon : BOOLEAN, num : {a.num : a \in Amounts},
            unit : {a.unit : a \in Amounts}]

\* (a phrase without a colon is kept for the bare amount and for "Storage")
SizePhrases ==
    {ph \in Phrases :
        /\ [num |-> ph.num, unit |-> ph.unit] \in Amounts
        /\ ph.colon \/ ph.label \in {"", "Storage"}}

\* utils.strip_html: every tag becomes a space
strip_html(text) == [markup |-> FALSE, phrases |-> text.phrases]

\* pattern k matches with its number at phrase j: phrase j has the colon
\* followed (after white space only) by a number and a unit, and the label
\* stands at a phrase i <= j with no colon between the label and phrase j's
\* colon ([^:]* spans anything but a colon)
MatchesAt(text, k, j) ==
    LET ph == text.phrases
    IN  /\ ~text.markup
        /\ ph[j].colon
        /\ UnitMatches(ph[j].unit)
        /\ \E i \in 1..j :
              /\ ph[i].label \in PatternLabels[k]
              /\ \A m \in i..(j - 1) : ~ph[m].colon

\* the values re.findall collects over the three patterns (line 72-82)
SizeVals(text) ==
    {ConvertSize(text.phrases[j].num, text.phrases[j].unit) :
        j \in {j \in 1..Len(text.phrases) : \E k \in 1..3 : MatchesAt(text, k, j)}}

SetMax(S) == CHOOSE x \in S : \A y \in S : y <= x

\* parse_storage_requirement_gb_from_html: the largest value, or None
parse_storage_requirement_gb_from_html(html) ==
    LET vals == SizeVals(strip_html(html))
    IN  IF vals = {} THEN Absent ELSE Some(SetMax(vals))

(***************************************************************************)
(* The size parser applied to one text.                                    *)
(***************************************************************************)
SizeTexts == [markup : BOOLEAN, phrases : SeqUpTo(SizePhrases, MaxPhrases)]

SizeStart ==
    /\ s_pc = "input"
    /\ s_text \in SizeTexts
    /\ s_result = Absent

SizeIdle ==
    /\ s_pc = "idle"
    /\ s_text = [markup |-> FALSE, phrases |-> <<>>]
    /\ s_result = Absent

ParseSize ==
    /\ s_pc = "input"
    /\ s_result' = parse_storage_requirement_gb_from_html(s_text)
    /\ s_pc' = "parsed"
    /\ UNCHANGED s_text
    /\ UNCHANGED notSize

SizeNext == ParseSize

(***************************************************************************)
(* enrich.fetch_app_meta: the details endpoint, then the storefront page.  *)
(***************************************************************************)
\* (d.get("type") or "").lower() or None
LowerWord(w) ==
    CASE w = "Game" -> "game"
      [] w = "DLC" -> "dlc"
      [] OTHER -> w

\* the start of the first run of four digits of s, or 0
FirstFourDigits(s) ==
    LET starts == {i \in 1..(Len(s) - 3) : \A k \in 0..3 : IsDigit(s[i + k])}
    IN  IF starts = {} THEN 0 ELSE CHOOSE i \in starts : \A j \in starts : i <= j

\* enrich._extract_year
ExtractYear(date_str) ==
    LET i == FirstFourDigits(date_str)
        y == DigitsValue(SubSeq(date_str, i, i + 3))
    IN  IF date_str = <<>> THEN Absent
        ELSE IF i = 0 THEN Absent
        ELSE IF 1970 <= y /\ y <= 2100 THEN Some(y) ELSE Absent

\* Python's `a or b` on optional sizes: a unless it is None or 0.0
OrElse(a, b) == IF a # Absent /\ a # Some(0) THEN a ELSE b

\* release dates as the upstream states them
Dates ==
    {<<>>, <<"T", "B", "A">>, <<"N", "o", "v", " ", "2", "0", "1", "9">>,
     <<"2", "0", "0", "4">>, <<"1", "9", "6", "9">>, <<"2", "0", "1", "9", "0">>}

Storage(num, unit) ==
    [markup |-> TRUE,
     phrases |-> <<[label |-> "Storage", colon |-> TRUE, num |-> num, unit |-> unit]>>]

\* requirement blocks as the upstream states them: none, 2.5 GiB, 0.01 TB,
\* 4 MB (0.0 GB after rounding), and RAM only
ReqTexts ==
    {[markup |-> TRUE, phrases |-> <<>>],
     Storage(<<"2", ".", "5">>, "GiB"),
     Storage(<<"0", ".", "0", "1">>, "TB"),
     Storage(<<"4">>, "MB"),
     [markup |-> TRUE,
      phrases |-> <<[label |-> "Memory", colon |-> TRUE, num |-> <<"1", "0">>,
                     unit |-> "GB"]>>]}

\* a response of the details endpoint: how the request ended; entry.success;
\* data.type; which member is not of the expected shape ("none", or the one
\* whose use raises); release_date.coming_soon and .date;
\* pc_requirements.minimum and .recommended
DetailsResponses ==
    [status : {"neterr", "http_error", "bad_json"}, success : {FALSE}, type : {""},
     malformed : {"none"}, coming_soon : {FALSE}, date : {<<>>},
     minimum : {[markup |-> TRUE, phrases |-> <<>>]},
     recommended : {[markup |-> TRUE, phrases |-> <<>>]}]
    \cup [status : {"ok"}, success : BOOLEAN, type : {"", "Game", "dlc"},
          malformed : {"none", "release_date", "pc_requirements"},
          coming_soon : BOOLEAN, date : Dates,
          minimum : ReqTexts, recommended : ReqTexts]

\* a response of the storefront page: how the request ended; the type hints
\* the page contains; the date of its release block (Absent: no block); the
\* isolated system-requirements section (Absent: not found) and the
\* requirements text of the whole page; whether a delisted phrase occurs
PageResponses ==
    [status : {"neterr", "http_error"}, hints : {{}}, release : {Absent},
     section : {Absent}, whole : {[markup |-> TRUE, phrases |-> <<>>]},
     delisted : {FALSE}]
    \cup [status : {"ok"}, hints : {{}, {"dlc"}, {"software", "tool"}, {"video"}},
          release : {Absent} \cup {Some(d) : d \in Dates},
          section : {Absent} \cup {Some(t) : t \in ReqTexts},
          whole : {[markup |-> TRUE, phrases |-> <<>>], Storage(<<"1", "0">>, "GB")},
          delisted : BOOLEAN]

\* lines 106-108, 131
MetaLocals0 ==
    [app_type |-> None, release_year |-> Absent, size_gb |-> Absent, delisted |-> Absent]

\* step 1 gives up every field when any statement of its try block raises
MetaStep1AllOrNothing(r) ==
    IF r.status # "ok" \/ ~r.success \/ r.malformed # "none" THEN MetaLocals0
    ELSE [app_type |-> IF LowerWord(r.type) = "" THEN None ELSE LowerWord(r.type),
          release_year |-> IF r.coming_soon THEN Absent ELSE ExtractYear(r.date),
          size_gb |-> OrElse(parse_storage_requirement_gb_from_html(r.minimum),
                             parse_storage_requirement_gb_from_html(r.recommended)),
          delisted |-> Absent]

\* step 1, lines 111-129: each assignment happens unless an earlier
\* statement of the try block raised
MetaStep1(r) ==
    IF r.status # "ok" \/ ~r.success THEN MetaLocals0
    ELSE LET t == LowerWord(r.type)
             app_type == IF t = "" THEN None ELSE t
             year == IF r.coming_soon THEN Absent ELSE ExtractYear(r.date)
             size == OrElse(parse_storage_requirement_gb_from_html(r.minimum),
                            parse_storage_requirement_gb_from_html(r.recommended))
         IN  [app_type |-> app_type,
              release_year |-> IF r.malformed = "release_date" THEN Absent ELSE year,
              size_gb |-> IF r.malformed = "none" THEN size ELSE Absent,
              delisted |-> Absent]

\* the statement of step 1's try block that raises ("none": the block runs
\* to its end, "request": lines 112-114), with the kind and the year the
\* response states and whether it flags the item as coming soon
NoFailure ==
    [at |-> "none", type |-> None, year |-> Absent, larger |-> Absent, coming_soon |-> FALSE]

\* the larger of the sizes the two requirement blocks state, Absent unless
\* both state one
LargerOf(mn, rc) ==
    IF mn = Absent \/ rc = Absent THEN Absent ELSE Some(SetMax({mn[1], rc[1]}))

FailureOf(r) ==
    IF r.status # "ok" THEN [NoFailure EXCEPT !.at = "request"]
    ELSE IF ~r.success THEN NoFailure
    ELSE [at |-> r.malformed,
          type |-> IF LowerWord(r.type) = "" THEN None ELSE LowerWord(r.type),
          year |-> IF r.coming_soon THEN Absent ELSE ExtractYear(r.date),
          larger |-> LargerOf(parse_storage_requirement_gb_from_html(r.minimum),
                              parse_storage_requirement_gb_from_html(r.recommended)),
          coming_soon |-> r.malformed # "release_date" /\ r.coming_soon]

\* line 133
MetaNeedsPage(loc, need_size_fallback, check_availability) ==
    \/ loc.app_type = None
    \/ loc.release_year = Absent
    \/ loc.size_gb = Absent /\ need_size_fallback
    \/ check_availability

\* enrich._type_from_html
type_from_html(p) ==
    IF "dlc" \in p.hints THEN "dlc"
    ELSE IF "software" \in p.hints THEN "software"
    ELSE IF "tool" \in p.hints THEN "tool"
    ELSE IF "video" \in p.hints THEN "video"
    ELSE "game"

\* lines 142-145: the year of the page's release block
PageYear(p) == IF p.release = Absent THEN Absent ELSE ExtractYear(p.release[1])

\* lines 148-150: the size of the narrowed section, or of the whole page
PageSize(p) ==
    parse_storage_requirement_gb_from_html(
        IF p.section = Absent THEN p.whole ELSE p.section[1])

\* a field filled from the page whatever step 1 left in it
Overwrite(cur, found, missing) == found

\* `if <field> is None: <field> = <found>`
FillIfMissing(cur, found, missing) == IF cur = missing THEN found ELSE cur

\* step 2, lines 134-155 (the request raises, or every statement runs)
MetaStep2(loc, p, need_size_fallback) ==
    IF p.status # "ok" THEN loc
    ELSE [app_type |-> FillIfMissing(loc.app_type, type_from_html(p), None),
          release_year |-> FillIfMissing(loc.release_year, PageYear(p), Absent),
          size_gb |-> IF need_size_fallback
                      THEN FillIfMissing(loc.size_gb, PageSize(p), Absent)
                      ELSE loc.size_gb,
          delisted |-> FillIfMissing(loc.delisted, Some(p.delisted), Absent)]

\* lines 157-162 (sizes are already rounded to two decimals)
MetaReturn(loc) ==
    [app_type |-> loc.app_type,
     release_year |-> loc.release_year,
     approx_install_size_gb |->
         IF loc.size_gb # Absent /\ loc.size_gb # Some(0) THEN loc.size_gb ELSE Absent,
     delisted |-> loc.delisted]

\* fetch_app_meta as a function of the two upstream responses
fetch_app_meta(details, page, need_size_fallback, check_availability) ==
    LET loc == MetaStep1(details)
    IN  IF MetaNeedsPage(loc, need_size_fallback, check_availability)
        THEN MetaReturn(MetaStep2(loc, page, need_size_fallback))
        ELSE MetaReturn(loc)

(***************************************************************************)
(* One call of fetch_app_meta, step by step.                               *)
(***************************************************************************)
MetaStart ==
    /\ m_pc = "step1"
    /\ m_need_size_fallback \in BOOLEAN
    /\ m_check_availability \in BOOLEAN
    /\ m_loc = MetaLocals0
    /\ m_step1 = MetaLocals0
    /\ m_fail1 = NoFailure
    /\ m_page = Absent
    /\ m_requests = <<>>
    /\ m_result = Absent

MetaIdle ==
    /\ m_pc = "idle"
    /\ m_need_size_fallback = FALSE
    /\ m_check_availability = FALSE
    /\ m_loc = MetaLocals0
    /\ m_step1 = MetaLocals0
    /\ m_fail1 = NoFailure
    /\ m_page = Absent
    /\ m_requests = <<>>
    /\ m_result = Absent

\* lines 106-131
Step1Details ==
    /\ m_pc = "step1"
    /\ \E r \in DetailsResponses :
          /\ m_loc' = MetaStep1(r)
          /\ m_fail1' = FailureOf(r)
    /\ m_step1' = m_loc'
    /\ m_requests' = Append(m_requests, "appdetails")
    /\ m_pc' = "step2"
    /\ UNCHANGED <<m_need_size_fallback, m_check_availability, m_page, m_result>>
    /\ UNCHANGED notMeta

\* lines 133-155
Step2StorePage ==
    /\ m_pc = "step2"
    /\ MetaNeedsPage(m_loc, m_need_size_fallback, m_check_availability)
    /\ \E p \in PageResponses :
          /\ m_loc' = MetaStep2(m_loc, p, m_need_size_fallback)
          /\ m_page' = IF p.status = "ok"
                        THEN Some([app_type |-> type_from_html(p),
                                   release_year |-> PageYear(p),
                                   size_gb |-> PageSize(p)])
                        ELSE Absent
    /\ m_requests' = Append(m_requests, "store_page")
    /\ m_pc' = "return"
    /\ UNCHANGED <<m_need_size_fallback, m_check_availability, m_step1, m_fail1, m_result>>
    /\ UNCHANGED notMeta

\* lines 157-162
MetaReturns ==
    /\ \/ m_pc = "return"
       \/ /\ m_pc = "step2"
          /\ ~MetaNeedsPage(m_loc, m_need_size_fallback, m_check_availability)
    /\ m_result' = Some(MetaReturn(m_loc))
    /\ m_pc' = "done"
    /\ UNCHANGED <<m_need_size_fallback, m_check_availability, m_loc, m_step1, m_fail1,
                   m_page, m_requests>>
    /\ UNCHANGED notMeta

MetaNext == Step1Details \/ Step2StorePage \/ MetaReturns

(***************************************************************************)
(* utils._HostThrottle.wait and the http_get_* wrappers, called by several *)
(* threads. Time passes between any two steps of a thread.                 *)
(***************************************************************************)
Kinds == {"store", "api"}

Threads == {1, 2}

\* set_throttle_config: minimum delays and jitter ceiling, in ticks
DelayConfigs == {[store |-> 2, api |-> 1], [store |-> 1, api |-> 1]}

JitterConfigs == {0, 1}

\* the host class whose requests t_hist records
Observed == "store"

IdleThread == [pc |-> "idle", kind |-> "store", now |-> 0, wake |-> 0]

NoHist == [entered |-> FALSE, first_entry |-> 0, first_issue |-> 0, last_issue |-> 0, n |-> 0]

ThrottleStart ==
    /\ clock = 0
    /\ t_last = [k \in Kinds |-> 0]
    /\ t_min_delay \in DelayConfigs
    /\ t_jitter \in JitterConfigs
    /\ t_lock = 0
    /\ t_thread = [t \in Threads |-> IdleThread]
    /\ t_calls = 0
    /\ t_hist = NoHist

ThrottleIdle ==
    /\ clock = 0
    /\ t_last = [k \in Kinds |-> 0]
    /\ t_min_delay = [k \in Kinds |-> 0]
    /\ t_jitter = 0
    /\ t_lock = 0
    /\ t_thread = [t \in Threads |-> IdleThread]
    /\ t_calls = 0
    /\ t_hist = NoHist

\* time.monotonic() advances
Tick ==
    /\ clock < MaxTime
    /\ clock' = clock + 1
    /\ UNCHANGED <<t_last, t_min_delay, t_jitter, t_lock, t_thread, t_calls, t_hist>>
    /\ UNCHANGED notThrottle

\* http_get_<kind> calls wait(kind); line 60: now = time.monotonic()
EnterWait(t, kind) ==
    /\ t_thread[t].pc = "idle"
    /\ t_calls < MaxCalls
    /\ t_calls' = t_calls + 1
    /\ t_thread' = [t_thread EXCEPT ![t] = [pc |-> "lock", kind |-> kind, now |-> clock,
                                            wake |-> 0]]
    /\ t_hist' = IF kind # Observed \/ t_hist.entered THEN t_hist
                 ELSE [t_hist EXCEPT !.entered = TRUE, !.first_entry = clock]
    /\ UNCHANGED <<clock, t_last, t_min_delay, t_jitter, t_lock>>
    /\ UNCHANGED notThrottle

\* line 61: with self.lock
AcquireLock(t) ==
    /\ t_thread[t].pc = "lock"
    /\ t_lock = 0
    /\ t_lock' = t
    /\ t_thread' = [t_thread EXCEPT ![t].pc = "crit"]
    /\ UNCHANGED <<clock, t_last, t_min_delay, t_jitter, t_calls, t_hist>>
    /\ UNCHANGED notThrottle

\* the time of the bookkeeping stored, the sleep left out
NextAllowedNow(mono, sleep_for) == mono

\* line 70: self.last[kind] = time.monotonic() + (sleep_for if sleep_for>0 else 0)
NextAllowed(mono, sleep_for) == mono + (IF sleep_for > 0 THEN sleep_for ELSE 0)

\* the lock stays with the thread over its sleep
LockKept(t) == t

\* the `with self.lock` block ends after line 70, before the sleep of
\* lines 71-72: the lock is free (0) again
LockReleased(t) == 0

\* lines 62-70, then the lock is released; time.sleep(sleep_for) ends no
\* earlier than sleep_for after it starts
Reserve(t) ==
    /\ t_thread[t].pc = "crit"
    /\ t_lock = t
    /\ LET kind == t_thread[t].kind
           last == t_last[kind]
           need == t_min_delay[kind] - (t_thread[t].now - last)
       IN  \E jitter \in 0..t_jitter :
              LET sleep_for == IF need > 0 THEN need + jitter ELSE 0
              IN  /\ t_last' = [t_last EXCEPT ![kind] = NextAllowed(clock, sleep_for)]
                  /\ t_thread' = [t_thread EXCEPT ![t].pc = "wait", ![t].now = 0,
                                                  ![t].wake = clock + sleep_for]
    /\ t_lock' = LockReleased(t)
    /\ UNCHANGED <<clock, t_min_delay, t_jitter, t_calls, t_hist>>
    /\ UNCHANGED notThrottle

\* wait returns (lines 71-72) and session.get starts the request
IssueRequest(t) ==
    /\ t_thread[t].pc = "wait"
    /\ clock >= t_thread[t].wake
    /\ t_hist' = IF t_thread[t].kind # Observed THEN t_hist
                 ELSE [t_hist EXCEPT !.first_issue = IF t_hist.n = 0 THEN clock
                                                     ELSE t_hist.first_issue,
                                     !.last_issue = clock,
                                     !.n = t_hist.n + 1]
    /\ t_thread' = [t_thread EXCEPT ![t] = IdleThread]
    /\ UNCHANGED <<clock, t_last, t_min_delay, t_jitter, t_lock, t_calls>>
    /\ UNCHANGED notThrottle

ThrottleNext ==
    \/ Tick
    \/ \E t \in Threads, kind \in Kinds : EnterWait(t, kind)
    \/ \E t \in Threads : AcquireLock(t)
    \/ \E t \in Threads : Reserve(t)
    \/ \E t \in Threads : IssueRequest(t)

(***************************************************************************)
(* input_parser: the ids file, line by line.                               *)
(***************************************************************************)
Sid1 == <<"7", "1">>

Sid2 == <<"7", "2">>

\* str.isdigit()
isdigit(s) == s # <<>> /\ AllDigits(s)

\* the value part of a line, as urlparse and the path pattern see it:
\* "raw" has no scheme, "profiles" and "id" are steamcommunity.com URLs
\* /profiles/<value> and /id/<value>, "community" is another
\* steamcommunity.com path, "url" is a URL of another host, "unparsable"
\* is a text urlparse rejects (an unbalanced "[" or "]" in the host part
\* makes urlsplit raise ValueError, line 42)
Idents ==
    [form : {"raw"}, value : {<<>>, Sid1, Sid2, <<"b", "o", "b">>}]
    \cup [form : {"profiles"}, value : {Sid2, <<"b", "o", "b">>}]
    \cup [form : {"id"}, value : {<<"b", "o", "b">>}]
    \cup [form : {"community", "url"}, value : {<<"x">>}]
    \cup [form : {"unparsable"}, value : {<<"[">>}]

\* the label the n-th line carries when it has one
LineLabel(n) == <<"A", "B", "C", "D">>[n]

\* the n-th line of the file after strip(): blank, a comment, without ":",
\* or "<label>: <ident>" ("" is the empty label)
IdsLines(n) ==
    [kind : {"blank", "comment", "nocolon"}, label : {""},
     ident : {[form |-> "raw", value |-> <<>>]}]
    \cup [kind : {"pair"}, label : {"", LineLabel(n)}, ident : Idents]

\* a response to the profile request of a vanity name: how the request
\* ended and root.findtext(".//steamID64") (<<>>: no such element, or an
\* empty one; both are falsy)
VanityResponses ==
    [status : {"neterr", "http_error", "bad_xml"}, steamID64 : {<<>>}]
    \cup [status : {"ok"}, steamID64 : {<<>>, Sid1}]

\* no argument is looked up
NeedsLookupNever(ident) == FALSE

\* the forms the resolver asks the network about
NeedsLookupAnyUrl(ident) == ident.form \in {"id", "profiles"}

\* line 50: only a vanity name is looked up
NeedsLookup(ident) == ident.form = "id"

\* what normalize_to_steamid64 returns when it returns, as a function of
\* the response to the lookup (<<>> is None); see UrlparseRaises
normalize_to_steamid64(ident, resp) ==
    IF ident.form = "raw" THEN (IF isdigit(ident.value) THEN ident.value ELSE <<>>)
    ELSE IF ident.form = "profiles"
    THEN (IF isdigit(ident.value) THEN ident.value ELSE <<>>)
    ELSE IF ident.form = "id"
    THEN (IF resp.status = "ok" THEN resp.steamID64 ELSE <<>>)
    ELSE <<>>

\* the calls of normalize_to_steamid64 followed
MaxResolves == 2

\* the arguments tried: those of Idents, a second vanity name and a second
\* numeric profile URL
ResolveIdents ==
    Idents
    \cup [form : {"id"}, value : {<<"a", "l">>}]
    \cup [form : {"profiles"}, value : {Sid1}]

\* the responses tried: those of VanityResponses, and an identifier element
\* that holds other text than digits
ResolveResponses ==
    VanityResponses \cup [status : {"ok"}, steamID64 : {Sid2, <<"x">>}]

\* line 42: urlparse(s) raises
UrlparseRaises(ident) == ident.form = "unparsable" /\ ~isdigit(ident.value)

NoResponse == [status |-> "none", steamID64 |-> <<>>]

ResolveStart == z_calls = <<>>

ResolveIdle == z_calls = <<[ident |-> [form |-> "raw", value |-> <<>>], requests |-> 0,
                            resp |-> NoResponse, outcome |-> "idle", result |-> <<>>]>>

\* lines 39-50: strip, isdigit, urlparse and the path pattern; no request
Classify ==
    /\ Len(z_calls) < MaxResolves
    /\ \A i \in 1..Len(z_calls) : z_calls[i].outcome = "returned"
    /\ \E ident \in ResolveIdents :
          z_calls' = Append(z_calls,
              [ident |-> ident, requests |-> 0, resp |-> NoResponse,
               outcome |-> IF UrlparseRaises(ident) THEN "raised"
                           ELSE IF NeedsLookup(ident) THEN "lookup"
                           ELSE "returned",
               result |-> IF UrlparseRaises(ident) \/ NeedsLookup(ident) THEN <<>>
                          ELSE normalize_to_steamid64(ident, NoResponse)])
    /\ UNCHANGED notResolve

\* lines 51-60: the profile request of a vanity name and what is read from it
Lookup ==
    /\ z_calls # <<>>
    /\ z_calls[Len(z_calls)].outcome = "lookup"
    /\ \E resp \in ResolveResponses :
          z_calls' = [z_calls EXCEPT ![Len(z_calls)] =
              [@ EXCEPT !.requests = @ + 1,
                        !.resp = resp,
                        !.outcome = "returned",
                        !.result = normalize_to_steamid64(z_calls[Len(z_calls)].ident, resp)]]
    /\ UNCHANGED notResolve

ResolveNext == Classify \/ Lookup

\* lines 19-27: the line reaches normalize_to_steamid64
ReachesResolver(line) ==
    /\ line.kind = "pair"
    /\ line.label # ""
    /\ line.ident.value # <<>>

(***************************************************************************)
(* input_parser.parse_ids_file, line by line.                              *)
(***************************************************************************)
\* every resolved line is kept, seen before or not
KeepsAll(seen, sid64) == sid64 # <<>>

\* lines 29-33: the line adds an entry
Keeps(seen, sid64) == sid64 # <<>> /\ sid64 \notin seen

IdsFileStart ==
    /\ q_pc = "read"
    /\ q_lines = <<>>
    /\ q_out = <<>>
    /\ q_seen = {}

IdsFileIdle ==
    /\ q_pc = "idle"
    /\ q_lines = <<>>
    /\ q_out = <<>>
    /\ q_seen = {}

\* lines 17-35: one pass of the loop over the lines of the file
ReadIdsLine ==
    /\ q_pc = "read"
    /\ Len(q_lines) < MaxLines
    /\ \E line \in IdsLines(Len(q_lines) + 1), resp \in VanityResponses :
          LET raises == ReachesResolver(line) /\ UrlparseRaises(line.ident)
              sid64 == IF ReachesResolver(line) /\ ~raises
                       THEN normalize_to_steamid64(line.ident, resp) ELSE <<>>
          IN  /\ q_lines' = Append(q_lines, [line |-> line, sid64 |-> sid64])
              /\ q_pc' = IF raises THEN "raised" ELSE q_pc
              /\ q_seen' = IF Keeps(q_seen, sid64) THEN q_seen \cup {sid64} ELSE q_seen
              /\ q_out' = IF Keeps(q_seen, sid64)
                          THEN Append(q_out, [label |-> line.label, steamid64 |-> sid64])
                          ELSE q_out
    /\ UNCHANGED notIdsFile

\* line 36: the file has no further line
ReturnEntries ==
    /\ q_pc = "read"
    /\ q_pc' = "done"
    /\ UNCHANGED <<q_lines, q_out, q_seen>>
    /\ UNCHANGED notIdsFile

IdsFileNext == ReadIdsLine \/ ReturnEntries

\* the host class whose _THROTTLE.wait precedes a request to the endpoint;
\* "none" where the request is a bare requests.get or session.get
\* (input_parser.py 52, steam_fetch.py 17 and 39; enrich.py 37, 50, 112,
\* 135 call http_get_store and 175 calls http_get_api)
Endpoints == {"vanity", "xml", "html", "appdetails", "store_page", "reviews", "news"}

WaitsOn(endpoint) ==
    CASE endpoint \in {"appdetails", "store_page", "reviews"} -> "store"
      [] endpoint = "news" -> "api"
      [] OTHER -> "none"

NoRequests ==
    [vanity |-> 0, xml |-> 0, html |-> 0, appdetails |-> 0, store_page |-> 0,
     reviews |-> 0, news |-> 0]

\* the requests issued for the library, the metadata and the enrichment
WorkRequests(req) ==
    req.xml + req.html + req.appdetails + req.store_page + req.reviews + req.news

(***************************************************************************)
(* Python dicts: the items in insertion order.                             *)
(***************************************************************************)
DictHas(d, k) == \E i \in 1..Len(d) : d[i].key = k

DictGet(d, k) == d[CHOOSE i \in 1..Len(d) : d[i].key = k].value

DictSet(d, k, v) ==
    IF DictHas(d, k)
    THEN [i \in 1..Len(d) |-> IF d[i].key = k THEN [key |-> k, value |-> v] ELSE d[i]]
    ELSE Append(d, [key |-> k, value |-> v])

DictKeys(d) == [i \in 1..Len(d) |-> d[i].key]

(***************************************************************************)
(* Upstream values of a pipeline run.                                      *)
(***************************************************************************)
\* every value `sid` can take
AllSids == {Sid1, Sid2}

Node(id, name, hours) == [id |-> id, name |-> name, hoursOnRecord |-> hours]

\* structured feed responses: a failure, an empty list, {1: Foo, 3h},
\* {1: Foo, 2h; 2: Bar, 5h}, and a list naming item 1 twice
PipeXmlResponses ==
    {[status |-> "neterr", shape |-> 3, idTag |-> "appID", nodes |-> <<>>]}
    \cup [status : {"ok"}, shape : {1}, idTag : {"appID"},
          nodes : {<<>>,
                   <<Node(<<"1">>, Foo, <<"3">>)>>,
                   <<Node(<<"1">>, Foo, <<"2">>), Node(<<"2">>, Bar, <<"5">>)>>,
                   <<Node(<<"1">>, Foo, <<"2">>), Node(<<"1">>, Foo, <<"0", ".", "5">>)>>}]

\* embedded page responses: no blob, and {2: Bar, 5h}
PipeHtmlResponses ==
    {[status |-> "ok", blob |-> "none", json |-> "valid", arr |-> <<>>],
     [status |-> "ok", blob |-> "strict", json |-> "valid",
      arr |-> <<[appid |-> 2, name |-> Bar, hours_forever |-> <<"5">>]>>]}

\* details responses: a failure, and one that resolves kind, year and size
PipeDetails ==
    {[status |-> "http_error", success |-> FALSE, type |-> "", malformed |-> "none",
      coming_soon |-> FALSE, date |-> <<>>,
      minimum |-> [markup |-> TRUE, phrases |-> <<>>],
      recommended |-> [markup |-> TRUE, phrases |-> <<>>]],
     [status |-> "ok", success |-> TRUE, type |-> "Game", malformed |-> "none",
      coming_soon |-> FALSE, date |-> <<"2", "0", "0", "4">>,
      minimum |-> Storage(<<"2", ".", "5">>, "GiB"),
      recommended |-> [markup |-> TRUE, phrases |-> <<>>]]}

\* storefront pages: a plain page, and a page with a delisted phrase
PipePages ==
    [status : {"ok"}, hints : {{}}, release : {Absent}, section : {Absent},
     whole : {[markup |-> TRUE, phrases |-> <<>>]}, delisted : BOOLEAN]

\* a response of a review endpoint: how the request ended and the
\* query_summary members ("" is a missing review_score_desc)
PipeRecentReviews ==
    {[status |-> "http_error", total_reviews |-> 0, total_positive |-> 0,
      review_score_desc |-> ""],
     [status |-> "ok", total_reviews |-> 3, total_positive |-> 2,
      review_score_desc |-> "Mostly Positive"]}

PipeOverallReviews ==
    {[status |-> "ok", total_reviews |-> 0, total_positive |-> 0, review_score_desc |-> ""]}

\* a response of the news endpoint: how the request ended and the items,
\* each with its date and whether title, contents or tags look like an update
PipeNews ==
    {[status |-> "neterr", items |-> <<>>],
     [status |-> "ok",
      items |-> <<[date |-> 1620000000, update |-> FALSE],
                  [date |-> 1560000000, update |-> TRUE],
                  [date |-> 0, update |-> TRUE]>>]}

\* cfg: the worker count, the include_* switches and the throttle settings
PipeConfigs ==
    {[workers |-> 1, include_reviews |-> TRUE, include_release_size |-> TRUE,
      include_last_update |-> FALSE, min_delay |-> [store |-> 2, api |-> 1], jitter_ms |-> 1],
     [workers |-> 2, include_reviews |-> FALSE, include_release_size |-> TRUE,
      include_last_update |-> TRUE, min_delay |-> [store |-> 2, api |-> 1], jitter_ms |-> 1],
     [workers |-> 0, include_reviews |-> FALSE, include_release_size |-> FALSE,
      include_last_update |-> FALSE, min_delay |-> [store |-> 1, api |-> 1], jitter_ms |-> 0]}

(***************************************************************************)
(* enrich.fetch_review_summary and enrich.fetch_last_update_year.          *)
(***************************************************************************)
NoReviews == [review_summary |-> "No reviews", recent_percent_positive |-> Absent]

\* a count of zero positives is taken for a missing one
ReviewFromTruthy(resp, default) ==
    IF resp.status # "ok" \/ resp.total_reviews <= 0 THEN Absent
    ELSE Some([review_summary |->
                   IF resp.review_score_desc = "" THEN default
                   ELSE resp.review_score_desc,
               recent_percent_positive |->
                   IF resp.total_positive = 0 THEN Absent
                   ELSE Some(RoundDiv(resp.total_positive * 10000, resp.total_reviews))])

\* lines 37-44 and 50-57: Absent when the try block raises or total is 0;
\* the percentage is in hundredths
ReviewFrom(resp, default) ==
    IF resp.status # "ok" \/ resp.total_reviews <= 0 THEN Absent
    ELSE Some([review_summary |->
                   IF resp.review_score_desc = "" THEN default
                   ELSE resp.review_score_desc,
               recent_percent_positive |->
                   Some(RoundDiv(resp.total_positive * 10000, resp.total_reviews))])

fetch_review_summary(recent, overall) ==
    IF ReviewFrom(recent, "Recent reviews") # Absent
    THEN ReviewFrom(recent, "Recent reviews")[1]
    ELSE IF ReviewFrom(overall, "Overall reviews") # Absent
    THEN ReviewFrom(overall, "Overall reviews")[1]
    ELSE NoReviews

\* both queries are always issued
ReviewRequestsBoth(recent) == 2

\* the requests fetch_review_summary issues
ReviewRequests(recent) == IF ReviewFrom(recent, "Recent reviews") # Absent THEN 1 ELSE 2

\* answers of the reviews endpoint. status "bad_positive": total_positive is
\* not a number, so int() at line 42 or 55 raises after total was read
ReviewResponses ==
    [status : {"neterr", "http_error", "bad_json"}, total_reviews : {0},
     total_positive : {0}, review_score_desc : {""}]
    \cup {[status |-> "bad_positive", total_reviews |-> 3, total_positive |-> 0,
           review_score_desc |-> "Mixed"]}
    \cup {r \in [status : {"ok"}, total_reviews : {0, 1, 3, 8}, total_positive : 0..3,
                  review_score_desc : {"", "Mixed"}] :
             r.total_positive <= r.total_reviews}

ReviewStart ==
    /\ rv_pc = "recent"
    /\ rv_recent = Absent
    /\ rv_overall = Absent
    /\ rv_requests = <<>>
    /\ rv_result = Absent

ReviewIdle ==
    /\ rv_pc = "idle"
    /\ rv_recent = Absent
    /\ rv_overall = Absent
    /\ rv_requests = <<>>
    /\ rv_result = Absent

\* lines 36-46
QueryRecent ==
    /\ rv_pc = "recent"
    /\ \E resp \in ReviewResponses :
          /\ rv_recent' = Some(resp)
          /\ IF ReviewRequests(resp) = 1
             THEN /\ rv_result' = ReviewFrom(resp, "Recent reviews")
                  /\ rv_pc' = "done"
             ELSE /\ rv_pc' = "overall"
                  /\ UNCHANGED rv_result
    /\ rv_requests' = Append(rv_requests, "recent")
    /\ UNCHANGED rv_overall
    /\ UNCHANGED notReview

\* lines 49-61
QueryOverall ==
    /\ rv_pc = "overall"
    /\ \E resp \in ReviewResponses :
          /\ rv_overall' = Some(resp)
          /\ rv_result' = IF ReviewFrom(resp, "Overall reviews") # Absent
                          THEN ReviewFrom(resp, "Overall reviews")
                          ELSE Some(NoReviews)
    /\ rv_requests' = Append(rv_requests, "overall")
    /\ rv_pc' = "done"
    /\ UNCHANGED rv_recent
    /\ UNCHANGED notReview

ReviewNext == QueryRecent \/ QueryOverall

\* datetime.utcfromtimestamp(ts).year (exact but for the hours around a new year)
YearOfTimestamp(ts) == 1970 + (ts \div 31556952)

\* the newest dated item decides, whatever it is about
fetch_last_update_year_newest(news) ==
    IF news.status # "ok" \/ news.items = <<>> THEN Absent
    ELSE LET dated == {news.items[i].date : i \in {j \in 1..Len(news.items) :
                                                     news.items[j].date > 0}}
         IN  IF dated # {} THEN Some(YearOfTimestamp(SetMax(dated))) ELSE Absent

\* lines 174-201
fetch_last_update_year(news) ==
    IF news.status # "ok" \/ news.items = <<>> THEN Absent
    ELSE LET dated == {news.items[i].date : i \in {j \in 1..Len(news.items) :
                                                     news.items[j].date > 0}}
             best == {news.items[i].date : i \in {j \in 1..Len(news.items) :
                          news.items[j].date > 0 /\ news.items[j].update}}
         IN  IF best # {} THEN Some(YearOfTimestamp(SetMax(best)))
             ELSE IF dated # {} THEN Some(YearOfTimestamp(SetMax(dated)))
             ELSE Absent

\* the longest feed tried
MaxItems == 3

\* a news item: `date` (0 when the field is missing) and whether title,
\* contents or tags mark it as an update (line 189)
NewsItems == [date : {0, 1560000000, 1620000000}, update : BOOLEAN]

\* answers of the news endpoint: a failed request, or a feed of items
NewsResponses ==
    [status : {"neterr", "http_error", "bad_json"}, items : {<<>>}]
    \cup [status : {"ok"}, items : SeqUpTo(NewsItems, MaxItems)]

NewsStart ==
    /\ n_pc = "request"
    /\ n_news = Absent
    /\ n_result = Absent

NewsIdle ==
    /\ n_pc = "idle"
    /\ n_news = Absent
    /\ n_result = Absent

\* lines 169-201
FetchLastUpdateYear ==
    /\ n_pc = "request"
    /\ \E news \in NewsResponses :
          /\ n_news' = Some(news)
          /\ n_result' = fetch_last_update_year(news)
    /\ n_pc' = "done"
    /\ UNCHANGED notNews

NewsNext == FetchLastUpdateYear

(***************************************************************************)
(* steam_export_with_reviews_v2: fetch_recent_reviews_for_app and          *)
(* enrich_with_reviews (steam_export_with_reviews.py has the same loop).   *)
(***************************************************************************)
\* the default of the parameter `retries`
Retries == 3

\* the games handed to enrich_with_reviews, by their position in `games`
Games == {1, 2}

\* what one session.get of the reviews URL leads to:
\*   "transport"  the call raises ConnectionError or Timeout
\*   "429_503"    status 429 or 503 (line 143)
\*   "http_error" another 4xx/5xx status (raise_for_status, line 145)
\*   "bad_json"   status 200, the body is not JSON (r.json() raises ValueError)
\*   "not_dict"   status 200, the body is JSON but no object (data.get raises
\*                AttributeError), or a count is no number (TypeError)
\*   "ok"         status 200 and a query_summary with numeric counts
StandaloneResponses ==
    [kind : {"transport", "429_503", "http_error", "bad_json", "not_dict"},
     total : {0}, pos : {0}]
    \cup {[kind |-> "ok", total |-> 0, pos |-> 0], [kind |-> "ok", total |-> 3, pos |-> 2]}

\* line 162: except (requests.RequestException, ValueError)
CaughtKinds == {"transport", "429_503", "http_error", "bad_json"}

\* every answer is followed by another attempt
OutcomeAlwaysRetry(resp) == "retry"

\* how one pass of the loop body ends
Outcome(resp) ==
    IF resp.kind \in CaughtKinds THEN "retry"
    ELSE IF resp.kind = "ok" THEN "return"
    ELSE "raise"

\* lines 146-161, percent in hundredths
Summary(resp) ==
    [recent_review_desc |-> "Mixed",
     recent_total_reviews |-> Some(resp.total),
     recent_positive |-> Some(resp.pos),
     recent_negative |-> Some(resp.total - resp.pos),
     recent_percent_positive |->
         IF resp.total # 0 THEN Some(RoundDiv(resp.pos * 10000, resp.total)) ELSE Absent]

\* lines 166-173
Blanks ==
    [recent_review_desc |-> "",
     recent_total_reviews |-> Absent,
     recent_positive |-> Absent,
     recent_negative |-> Absent,
     recent_percent_positive |-> Absent]

\* a submitted call: its position, `attempt`, the answers it got, its result
NewTask == [pc |-> "running", attempt |-> 0, hist |-> <<>>, result |-> Absent]

StandaloneStart ==
    /\ sa_pc = "collect"
    /\ sa_task = [g \in Games |-> NewTask]
    /\ sa_out = <<>>

StandaloneIdle ==
    /\ sa_pc = "idle"
    /\ sa_task = [g \in Games |-> [NewTask EXCEPT !.pc = "idle"]]
    /\ sa_out = <<>>

\* lines 140-164: one pass of the retry loop, the sleep included
Attempt(g) ==
    /\ sa_task[g].pc = "running"
    /\ sa_task[g].attempt < Retries
    /\ \E resp \in StandaloneResponses :
          sa_task' = [sa_task EXCEPT ![g] =
              [pc |-> CASE Outcome(resp) = "retry" -> "running"
                        [] Outcome(resp) = "return" -> "returned"
                        [] OTHER -> "raised",
               attempt |-> IF Outcome(resp) = "retry" THEN sa_task[g].attempt + 1
                           ELSE sa_task[g].attempt,
               hist |-> Append(sa_task[g].hist, resp.kind),
               result |-> IF Outcome(resp) = "return" THEN Some(Summary(resp)) ELSE Absent]]
    /\ UNCHANGED <<sa_pc, sa_out>>
    /\ UNCHANGED notStandalone

\* lines 165-173: the loop ran out
GiveUp(g) ==
    /\ sa_task[g].pc = "running"
    /\ sa_task[g].attempt >= Retries
    /\ sa_task' = [sa_task EXCEPT ![g].pc = "returned", ![g].result = Some(Blanks)]
    /\ UNCHANGED <<sa_pc, sa_out>>
    /\ UNCHANGED notStandalone

\* lines 179-183: as_completed hands over a finished call, fut.result()
\* returns its record or raises what the call raised
Collect(g) ==
    /\ sa_pc = "collect"
    /\ sa_task[g].pc \in {"returned", "raised"}
    /\ IF sa_task[g].pc = "raised"
       THEN /\ sa_pc' = "raised"
            /\ UNCHANGED <<sa_task, sa_out>>
       ELSE /\ sa_out' = Append(sa_out, [game |-> g, reviews |-> sa_task[g].result[1]])
            /\ sa_task' = [sa_task EXCEPT ![g].pc = "collected"]
            /\ UNCHANGED sa_pc
    /\ UNCHANGED notStandalone

\* out.sort(key = position in `games`), lines 184-186
SortByOrder(out) ==
    LET ranked == {i \in 1..Len(out) : TRUE}
        at(k) == CHOOSE i \in ranked :
                    Cardinality({j \in ranked : out[j].game < out[i].game}) = k - 1
    IN  [k \in 1..Len(out) |-> out[at(k)]]

Finish ==
    /\ sa_pc = "collect"
    /\ \A g \in Games : sa_task[g].pc = "collected"
    /\ sa_out' = SortByOrder(sa_out)
    /\ sa_pc' = "done"
    /\ UNCHANGED sa_task
    /\ UNCHANGED notStandalone

StandaloneNext ==
    \/ \E g \in Games : Attempt(g)
    \/ \E g \in Games : GiveUp(g)
    \/ \E g \in Games : Collect(g)
    \/ Finish

(***************************************************************************)
(* pipeline.run_pipeline.                                                  *)
(***************************************************************************)
parseVars == <<p_nlines, p_vanity_lines, p_entries, p_seen>>

libraryVars == <<p_combined, p_ok_count, p_failed, p_libs>>

poolVars == <<p_queue, p_running>>

stageVars == <<p_metas, p_targets, p_enrichments, p_last_update_years>>

PipeStart ==
    /\ p_pc = "configure"
    /\ p_cfg \in PipeConfigs
    /\ p_nlines = 0
    /\ p_vanity_lines = 0
    /\ p_entries = <<>>
    /\ p_seen = {}
    /\ p_req = NoRequests
    /\ p_i = 0
    /\ p_combined = <<>>
    /\ p_ok_count = 0
    /\ p_failed = <<>>
    /\ p_libs = [sid \in AllSids |-> <<>>]
    /\ p_queue = <<>>
    /\ p_running = {}
    /\ p_metas = <<>>
    /\ p_targets = <<>>
    /\ p_enrichments = <<>>
    /\ p_last_update_years = <<>>
    /\ p_rows = <<>>
    /\ p_error = ""

PipeIdle ==
    /\ p_pc = "idle"
    /\ p_cfg = <<>>
    /\ p_nlines = 0
    /\ p_vanity_lines = 0
    /\ p_entries = <<>>
    /\ p_seen = {}
    /\ p_req = NoRequests
    /\ p_i = 0
    /\ p_combined = <<>>
    /\ p_ok_count = 0
    /\ p_failed = <<>>
    /\ p_libs = [sid \in AllSids |-> <<>>]
    /\ p_queue = <<>>
    /\ p_running = {}
    /\ p_metas = <<>>
    /\ p_targets = <<>>
    /\ p_enrichments = <<>>
    /\ p_last_update_years = <<>>
    /\ p_rows = <<>>
    /\ p_error = ""

\* line 28: set_throttle_config -> _HostThrottle.configure
SetThrottleConfig ==
    /\ p_pc = "configure"
    /\ t_min_delay' = p_cfg.min_delay
    /\ t_jitter' = p_cfg.jitter_ms
    /\ p_pc' = "parse"
    /\ UNCHANGED <<p_cfg, parseVars, p_req, p_i, libraryVars, poolVars, stageVars, p_rows,
                   p_error>>
    /\ UNCHANGED notPipe

\* parse_ids_file, lines 17-35: one line of the file
ParseIdsLine ==
    /\ p_pc = "parse"
    /\ p_nlines < MaxLines
    /\ p_nlines' = p_nlines + 1
    /\ \E line \in IdsLines(p_nlines + 1), resp \in VanityResponses :
          LET looked == ReachesResolver(line) /\ NeedsLookup(line.ident)
              sid64 == IF ReachesResolver(line)
                       THEN normalize_to_steamid64(line.ident, resp) ELSE <<>>
              kept == sid64 # <<>> /\ sid64 \notin p_seen
              raises == ReachesResolver(line) /\ UrlparseRaises(line.ident)
          IN  /\ p_pc' = IF raises THEN "parse_raised" ELSE p_pc
              /\ p_error' = IF raises THEN "ValueError" ELSE p_error
              /\ p_vanity_lines' =
                     IF ReachesResolver(line) /\ line.ident.form = "id"
                     THEN p_vanity_lines + 1 ELSE p_vanity_lines
              /\ p_req' = IF looked THEN [p_req EXCEPT !.vanity = p_req.vanity + 1]
                          ELSE p_req
              /\ p_seen' = IF kept THEN p_seen \cup {sid64} ELSE p_seen
              /\ p_entries' = IF kept
                              THEN Append(p_entries,
                                          [label |-> line.label, steamid64 |-> sid64])
                              ELSE p_entries
    /\ UNCHANGED <<p_cfg, p_i, libraryVars, poolVars, stageVars, p_rows>>
    /\ UNCHANGED <<notPipe, t_min_delay, t_jitter>>

\* lines 33-37: the file is read and no entry came out of it
NoValidLines ==
    /\ p_pc = "parse"
    /\ p_entries = <<>>
    /\ p_pc' = "fatal_no_entries"
    /\ p_error' = "SystemExit"
    /\ UNCHANGED <<p_cfg, parseVars, p_req, p_i, libraryVars, poolVars, stageVars, p_rows>>
    /\ UNCHANGED <<notPipe, t_min_delay, t_jitter>>

\* lines 39-47
BeginFetch ==
    /\ p_pc = "parse"
    /\ p_entries # <<>>
    /\ p_pc' = "fetch"
    /\ p_i' = 1
    /\ UNCHANGED <<p_cfg, parseVars, p_req, libraryVars, poolVars, stageVars, p_rows,
                   p_error>>
    /\ UNCHANGED <<notPipe, t_min_delay, t_jitter>>

\* line 64: float(g.get("hours_on_record") or 0.0), in tenths
Hrs(g) == g.hours_on_record

\* an owner recorded only when the entry is created
AddOwnerOnCreate(owners, sid) == IF owners = {} THEN {sid} ELSE owners

\* line 67
AddOwner(owners, sid) == owners \cup {sid}

\* the hours of the latest account replace the total
ReplaceHours(total, hrs) == hrs

\* line 68
AddHours(total, hrs) == total + hrs

\* an item the account already owns is not merged again
MergeGameOnce(combined, g, sid) ==
    IF DictHas(combined, g.appid) /\ sid \in DictGet(combined, g.appid).owners
    THEN combined
    ELSE LET c == IF DictHas(combined, g.appid) THEN combined
                  ELSE DictSet(combined, g.appid,
                               [name |-> g.name, owners |-> {}, hours |-> 0])
             e == DictGet(c, g.appid)
         IN  DictSet(c, g.appid,
                     [name |-> e.name, owners |-> e.owners \cup {sid},
                      hours |-> e.hours + g.hours_on_record])

\* lines 64-68
MergeGame(combined, g, sid) ==
    LET c == IF DictHas(combined, g.appid) THEN combined
             ELSE DictSet(combined, g.appid, [name |-> g.name, owners |-> {}, hours |-> 0])
        e == DictGet(c, g.appid)
    IN  DictSet(c, g.appid,
                [name |-> e.name, owners |-> AddOwner(e.owners, sid),
                 hours |-> AddHours(e.hours, Hrs(g))])

RECURSIVE MergeGames(_, _, _)
\* lines 63-68
MergeGames(combined, games, sid) ==
    IF games = <<>> THEN combined
    ELSE MergeGames(MergeGame(combined, Head(games), sid), Tail(games), sid)

\* line 58
NoGamesVisible == "No games visible (check Game details privacy = Public)"

\* line 59: f"{label} ({sid}) — {msg}"
FailedLine(e) == [label |-> e.label, steamid64 |-> e.steamid64, msg |-> NoGamesVisible]

\* every account taken to have returned items
NoItemsNever(games) == FALSE

\* line 57: `if not games`
NoItems(games) == games = <<>>

\* lines 49-71: one account, its fetch and the merge of what it returned
FetchLibrary ==
    /\ p_pc = "fetch"
    /\ p_i <= Len(p_entries)
    /\ \E xml \in PipeXmlResponses, html \in PipeHtmlResponses :
          LET e == p_entries[p_i]
              games == get_owned_games_for_steamid(xml, html)
              fallback == NeedsFallback(OrEmpty(fetch_games_xml(xml)))
          IN  /\ p_req' = [p_req EXCEPT !.xml = p_req.xml + 1,
                                        !.html = p_req.html + (IF fallback THEN 1 ELSE 0)]
              /\ p_libs' = [p_libs EXCEPT ![e.steamid64] = games]
              /\ IF NoItems(games)
                 THEN /\ p_failed' = Append(p_failed, FailedLine(e))
                      /\ UNCHANGED <<p_combined, p_ok_count>>
                 ELSE /\ p_combined' = MergeGames(p_combined, games, e.steamid64)
                      /\ p_ok_count' = p_ok_count + 1
                      /\ UNCHANGED p_failed
    /\ p_i' = p_i + 1
    /\ UNCHANGED <<p_pc, p_cfg, parseVars, poolVars, stageVars, p_rows, p_error>>
    /\ UNCHANGED <<notPipe, t_min_delay, t_jitter>>

\* the check for an empty aggregation map left out
NoGamesNever(combined) == FALSE

\* line 74: `if not combined`
NoGames(combined) == combined = <<>>

\* lines 74-75
NoGamesFound ==
    /\ p_pc = "fetch"
    /\ p_i > Len(p_entries)
    /\ NoGames(p_combined)
    /\ p_pc' = "fatal_no_games"
    /\ p_error' = "SystemExit"
    /\ UNCHANGED <<p_cfg, parseVars, p_req, p_i, libraryVars, poolVars, stageVars, p_rows>>
    /\ UNCHANGED <<notPipe, t_min_delay, t_jitter>>

\* lines 78-94: every appid is submitted to the pool
BeginMeta ==
    /\ p_pc = "fetch"
    /\ p_i > Len(p_entries)
    /\ ~NoGames(p_combined)
    /\ p_pc' = "meta"
    /\ p_queue' = DictKeys(p_combined)
    /\ UNCHANGED <<p_cfg, parseVars, p_req, p_i, libraryVars, p_running, stageVars, p_rows,
                   p_error>>
    /\ UNCHANGED <<notPipe, t_min_delay, t_jitter>>

\* the pool is left as soon as no task waits for a worker
PoolLeftEarly == p_queue = <<>>

\* the end of a `with ThreadPoolExecutor(...)` block (lines 93-108 and
\* 136-149): as_completed has handed over every future
PoolDrained == p_queue = <<>> /\ p_running = {}

\* a pool that starts a thread for every submitted task
max_workers_unbounded == Cardinality(p_running) + 1

\* ThreadPoolExecutor(max_workers=max(1, cfg.workers))
max_workers == IF p_cfg.workers > 1 THEN p_cfg.workers ELSE 1

\* a free worker takes the oldest submitted task
WorkerTakesTask ==
    /\ p_pc \in {"meta", "enrich"}
    /\ p_queue # <<>>
    /\ Cardinality(p_running) < max_workers
    /\ p_running' = p_running \cup {Head(p_queue)}
    /\ p_queue' = Tail(p_queue)
    /\ UNCHANGED <<p_pc, p_cfg, parseVars, p_req, p_i, libraryVars, stageVars, p_rows,
                   p_error>>
    /\ UNCHANGED <<notPipe, t_min_delay, t_jitter>>

\* an item flagged delisted taken out of the aggregation map
DropDelisted(combined, appid, meta) ==
    IF meta.delisted = Some(TRUE) THEN SelectSeq(combined, LAMBDA c : c.key # appid)
    ELSE combined

\* lines 96-106 write metas, targets and done: `combined` is only read, for
\* its keys (line 77), before the pool starts
MapAfterMeta(combined, appid, meta) == combined

\* meta_one (lines 88-91) ends and the main thread takes its result
\* (lines 96-106)
MetaOneDone(appid) ==
    /\ p_pc = "meta"
    /\ appid \in p_running
    /\ \E details \in PipeDetails, page \in PipePages :
          LET need == p_cfg.include_release_size
              meta == fetch_app_meta(details, page, need, TRUE)
              paged == MetaNeedsPage(MetaStep1(details), need, TRUE)
          IN  /\ p_metas' = DictSet(p_metas, appid, meta)
              /\ p_combined' = MapAfterMeta(p_combined, appid, meta)
              /\ p_req' = [p_req EXCEPT
                             !.appdetails = p_req.appdetails + 1,
                             !.store_page = p_req.store_page + (IF paged THEN 1 ELSE 0)]
    /\ p_targets' = Append(p_targets, appid)
    /\ p_running' = p_running \ {appid}
    /\ UNCHANGED <<p_pc, p_cfg, parseVars, p_i, p_ok_count, p_failed, p_libs, p_queue,
                   p_enrichments, p_last_update_years, p_rows, p_error>>
    /\ UNCHANGED <<notPipe, t_min_delay, t_jitter>>

\* lines 110-137: the pool is shut down, every target is submitted to a new one
BeginEnrich ==
    /\ p_pc = "meta"
    /\ PoolDrained
    /\ p_pc' = "enrich"
    /\ p_queue' = p_targets
    /\ UNCHANGED <<p_cfg, parseVars, p_req, p_i, libraryVars, p_running, stageVars, p_rows,
                   p_error>>
    /\ UNCHANGED <<notPipe, t_min_delay, t_jitter>>

\* enrich_one (lines 122-134) ends and the main thread takes its result
\* (lines 139-147)
EnrichOneDone(appid) ==
    /\ p_pc = "enrich"
    /\ appid \in p_running
    /\ \E recent \in PipeRecentReviews, overall \in PipeOverallReviews, news \in PipeNews :
          /\ p_enrichments' =
                 DictSet(p_enrichments, appid,
                         IF p_cfg.include_reviews
                         THEN fetch_review_summary(recent, overall) ELSE NoReviews)
          /\ p_last_update_years' =
                 DictSet(p_last_update_years, appid,
                         IF p_cfg.include_last_update
                         THEN fetch_last_update_year(news) ELSE Absent)
          /\ p_req' = [p_req EXCEPT
                         !.reviews = p_req.reviews
                                     + (IF p_cfg.include_reviews
                                        THEN ReviewRequests(recent) ELSE 0),
                         !.news = p_req.news + (IF p_cfg.include_last_update THEN 1 ELSE 0)]
    /\ p_running' = p_running \ {appid}
    /\ UNCHANGED <<p_pc, p_cfg, parseVars, p_i, libraryVars, p_queue, p_metas, p_targets,
                   p_rows, p_error>>
    /\ UNCHANGED <<notPipe, t_min_delay, t_jitter>>

\* lines 151-156
BeginRows ==
    /\ p_pc = "enrich"
    /\ PoolDrained
    /\ p_pc' = "rows"
    /\ p_i' = 1
    /\ UNCHANGED <<p_cfg, parseVars, p_req, libraryVars, poolVars, stageVars, p_rows,
                   p_error>>
    /\ UNCHANGED <<notPipe, t_min_delay, t_jitter>>

\* line 159: meta.get("delisted") is True
IsDelisted(meta) == meta.delisted = Some(TRUE)

\* lines 162-173
Row(appid) ==
    LET info == DictGet(p_combined, appid)
        meta == DictGet(p_metas, appid)
    IN  [appid |-> appid,
         name |-> info.name,
         owners |-> Cardinality(info.owners),
         combined_hours_on_record |-> info.hours,
         review_summary |->
             IF p_cfg.include_reviews
             THEN DictGet(p_enrichments, appid).review_summary ELSE None,
         recent_percent_positive |->
             IF p_cfg.include_reviews
             THEN DictGet(p_enrichments, appid).recent_percent_positive ELSE Absent,
         release_year |-> IF p_cfg.include_release_size THEN meta.release_year ELSE Absent,
         last_update_year |->
             IF p_cfg.include_last_update
             THEN DictGet(p_last_update_years, appid) ELSE Absent,
         approx_install_size_gb |->
             IF p_cfg.include_release_size THEN meta.approx_install_size_gb ELSE Absent]

\* lines 157-173: a target that is not flagged delisted becomes a row
BuildRow ==
    /\ p_pc = "rows"
    /\ p_i <= Len(p_targets)
    /\ ~IsDelisted(DictGet(p_metas, p_targets[p_i]))
    /\ p_rows' = Append(p_rows, Row(p_targets[p_i]))
    /\ p_i' = p_i + 1
    /\ UNCHANGED <<p_pc, p_cfg, parseVars, p_req, libraryVars, poolVars, stageVars, p_error>>
    /\ UNCHANGED <<notPipe, t_min_delay, t_jitter>>

\* line 160: excluded_delisted += 1 reads a local no statement has assigned
ExcludeDelistedRaises ==
    /\ p_pc = "rows"
    /\ p_i <= Len(p_targets)
    /\ IsDelisted(DictGet(p_metas, p_targets[p_i]))
    /\ p_pc' = "raised"
    /\ p_error' = "UnboundLocalError"
    /\ UNCHANGED <<p_cfg, parseVars, p_req, p_i, libraryVars, poolVars, stageVars, p_rows>>
    /\ UNCHANGED <<notPipe, t_min_delay, t_jitter>>

\* line 175: the log line reads the same local, which is still unassigned
LogExcludedRaises ==
    /\ p_pc = "rows"
    /\ p_i > Len(p_targets)
    /\ p_pc' = "raised"
    /\ p_error' = "UnboundLocalError"
    /\ UNCHANGED <<p_cfg, parseVars, p_req, p_i, libraryVars, poolVars, stageVars, p_rows>>
    /\ UNCHANGED <<notPipe, t_min_delay, t_jitter>>

\* every appid an upstream list can name
AppIds == {<<"1">>, <<"2">>}

Next ==
    \/ SetThrottleConfig
    \/ ParseIdsLine
    \/ NoValidLines
    \/ BeginFetch
    \/ FetchLibrary
    \/ NoGamesFound
    \/ BeginMeta
    \/ WorkerTakesTask
    \/ \E appid \in AppIds : MetaOneDone(appid)
    \/ BeginEnrich
    \/ \E appid \in AppIds : EnrichOneDone(appid)
    \/ BeginRows
    \/ BuildRow
    \/ ExcludeDelistedRaises
    \/ LogExcludedRaises

(***************************************************************************)
(* run_pipeline: the rows in completion order and rows.sort (line 177).    *)
(***************************************************************************)
\* the items an aggregation map can hold: appid, name and number of owners;
\* two of them differ in their names only by case
Catalogue ==
    {[appid |-> <<"1">>, name |-> Foo, owners |-> 1],
     [appid |-> <<"2">>, name |-> <<"f", "o", "o">>, owners |-> 1],
     [appid |-> <<"3">>, name |-> Bar, owners |-> 2],
     [appid |-> <<"4">>, name |-> Bar, owners |-> 1]}

\* ord(c) for the characters of the names
Ord(c) ==
    CASE c = "B" -> 66 [] c = "F" -> 70 [] c = "a" -> 97 [] c = "b" -> 98
      [] c = "f" -> 102 [] c = "o" -> 111 [] c = "r" -> 114 [] OTHER -> 0

\* str.lower()
Lower(text) ==
    [i \in 1..Len(text) |->
        CASE text[i] = "B" -> "b" [] text[i] = "F" -> "f" [] OTHER -> text[i]]

\* a < b for two str
TextLess(a, b) ==
    \E k \in 1..(Len(b)) :
        /\ \A i \in 1..(k - 1) : i <= Len(a) /\ a[i] = b[i]
        /\ \/ k > Len(a)
           \/ k <= Len(a) /\ Ord(a[k]) < Ord(b[k])

\* the sort key (-owners, name.lower()) of r1 is less than that of r2
KeyLess(r1, r2) ==
    \/ r1.owners > r2.owners
    \/ r1.owners = r2.owners /\ TextLess(Lower(r1.name), Lower(r2.name))

\* list.sort(key=...): ascending by key, equal keys in their old order
StableSort(rows) ==
    LET before(i) == {j \in 1..Len(rows) :
                         \/ KeyLess(rows[j], rows[i])
                         \/ ~KeyLess(rows[i], rows[j]) /\ j < i}
        at(k) == CHOOSE i \in 1..Len(rows) : Cardinality(before(i)) = k - 1
    IN  [k \in 1..Len(rows) |-> rows[at(k)]]

OrderStart ==
    /\ o_pc = "build"
    /\ o_map \in SUBSET Catalogue \ {{}}
    /\ o_rows = <<>>
    /\ o_sorted = <<>>

OrderIdle ==
    /\ o_pc = "idle"
    /\ o_map = {}
    /\ o_rows = <<>>
    /\ o_sorted = <<>>

\* lines 96-106 and 157-173: the metadata task of an item completes, the
\* item joins `targets` and, in that order, `rows`
RowBuilt(item) ==
    /\ o_pc = "build"
    /\ item \in o_map
    /\ \A i \in 1..Len(o_rows) : o_rows[i] # item
    /\ o_rows' = Append(o_rows, item)
    /\ UNCHANGED <<o_pc, o_map, o_sorted>>
    /\ UNCHANGED notOrder

\* line 177
SortRows ==
    /\ o_pc = "build"
    /\ Len(o_rows) = Cardinality(o_map)
    /\ o_sorted' = StableSort(o_rows)
    /\ o_pc' = "sorted"
    /\ UNCHANGED <<o_map, o_rows>>
    /\ UNCHANGED notOrder

OrderNext ==
    \/ \E item \in Catalogue : RowBuilt(item)
    \/ SortRows

(***************************************************************************)
(* run_pipeline: enrich_one on the pool threads and the two accumulators   *)
(* it adds to (pipeline.py 110-153).                                       *)
(***************************************************************************)
PoolThreads == {1, 2}

MaxTargets == 2

\* time.perf_counter() - s0 of one call, in ticks
Durations == {1, 2}

IdleWorker == [pc |-> "idle", acc |-> 0, d |-> 0]

TimingStart ==
    /\ e_pc = "pool"
    /\ e_cfg \in [workers : PoolThreads, include_reviews : BOOLEAN,
                  include_last_update : BOOLEAN]
    /\ e_left \in 1..MaxTargets
    /\ e_worker = [w \in PoolThreads |-> IdleWorker]
    /\ e_reviews_secs = 0
    /\ e_last_update_secs = 0
    /\ e_sums = [reviews |-> 0, last_update |-> 0]
    /\ e_timings = [reviews |-> 0, last_update |-> 0]

TimingIdle ==
    /\ e_pc = "idle"
    /\ e_cfg = [workers |-> 1, include_reviews |-> FALSE, include_last_update |-> FALSE]
    /\ e_left = 0
    /\ e_worker = [w \in PoolThreads |-> IdleWorker]
    /\ e_reviews_secs = 0
    /\ e_last_update_secs = 0
    /\ e_sums = [reviews |-> 0, last_update |-> 0]
    /\ e_timings = [reviews |-> 0, last_update |-> 0]

\* lines 125-129: after the review call (if any) comes the update call (if any)
AfterReviews == IF e_cfg.include_last_update THEN "upd_fetch" ELSE "idle"

\* lines 136-137 and 115-121: a pool thread takes a target and runs enrich_one
\* up to its first call; max_workers = max(1, cfg.workers)
StartEnrichOne(w) ==
    /\ e_pc = "pool"
    /\ w <= e_cfg.workers
    /\ e_worker[w].pc = "idle"
    /\ e_left > 0
    /\ e_left' = e_left - 1
    /\ e_worker' = [e_worker EXCEPT ![w].pc = IF e_cfg.include_reviews THEN "rev_fetch"
                                               ELSE AfterReviews]
    /\ UNCHANGED <<e_pc, e_cfg, e_reviews_secs, e_last_update_secs, e_sums, e_timings>>
    /\ UNCHANGED notTiming

\* lines 122-124: fetch_review_summary returns; `reviews_secs += ...` first
\* reads reviews_secs, then takes the duration
LoadReviewsSecs(w) ==
    /\ e_worker[w].pc = "rev_fetch"
    /\ \E d \in Durations :
          e_worker' = [e_worker EXCEPT ![w] = [pc |-> "rev_store", acc |-> e_reviews_secs,
                                               d |-> d]]
    /\ UNCHANGED <<e_pc, e_cfg, e_left, e_reviews_secs, e_last_update_secs, e_sums, e_timings>>
    /\ UNCHANGED notTiming

\* line 124: the sum is stored back into reviews_secs
StoreReviewsSecs(w) ==
    /\ e_worker[w].pc = "rev_store"
    /\ e_reviews_secs' = e_worker[w].acc + e_worker[w].d
    /\ e_sums' = [e_sums EXCEPT !.reviews = @ + e_worker[w].d]
    /\ e_worker' = [e_worker EXCEPT ![w] = [IdleWorker EXCEPT !.pc = AfterReviews]]
    /\ UNCHANGED <<e_pc, e_cfg, e_left, e_last_update_secs, e_timings>>
    /\ UNCHANGED notTiming

\* lines 126-128: fetch_last_update_year returns; `last_update_secs += ...`
\* first reads last_update_secs, then takes the duration
LoadLastUpdateSecs(w) ==
    /\ e_worker[w].pc = "upd_fetch"
    /\ \E d \in Durations :
          e_worker' = [e_worker EXCEPT ![w] = [pc |-> "upd_store",
                                               acc |-> e_last_update_secs, d |-> d]]
    /\ UNCHANGED <<e_pc, e_cfg, e_left, e_reviews_secs, e_last_update_secs, e_sums, e_timings>>
    /\ UNCHANGED notTiming

\* lines 128-129: the sum is stored back and enrich_one returns
StoreLastUpdateSecs(w) ==
    /\ e_worker[w].pc = "upd_store"
    /\ e_last_update_secs' = e_worker[w].acc + e_worker[w].d
    /\ e_sums' = [e_sums EXCEPT !.last_update = @ + e_worker[w].d]
    /\ e_worker' = [e_worker EXCEPT ![w] = IdleWorker]
    /\ UNCHANGED <<e_pc, e_cfg, e_left, e_reviews_secs, e_timings>>
    /\ UNCHANGED notTiming

\* lines 131-153: the executor is left when every task is done, then
\* timings.reviews and timings.last_update are set
SetTimings ==
    /\ e_pc = "pool"
    /\ e_left = 0
    /\ \A w \in PoolThreads : e_worker[w].pc = "idle"
    /\ e_timings' = [reviews |-> e_reviews_secs, last_update |-> e_last_update_secs]
    /\ e_pc' = "done"
    /\ UNCHANGED <<e_cfg, e_left, e_worker, e_reviews_secs, e_last_update_secs, e_sums>>
    /\ UNCHANGED notTiming

TimingNext ==
    \/ \E w \in PoolThreads : StartEnrichOne(w)
    \/ \E w \in PoolThreads : LoadReviewsSecs(w)
    \/ \E w \in PoolThreads : StoreReviewsSecs(w)
    \/ \E w \in PoolThreads : LoadLastUpdateSecs(w)
    \/ \E w \in PoolThreads : StoreLastUpdateSecs(w)
    \/ SetTimings

(***************************************************************************)
(* run_pipeline: which accounts a run fetches and merges: parse_ids_file   *)
(* (input_parser.py 15-35) and the loop over its entries (pipeline.py      *)
(* 49-71), for files whose lines all reach the resolver.                   *)
(***************************************************************************)
\* one account as numeric id, as profile URL and as vanity URL (the lookup
\* of the vanity name answers Sid1), and a second account
AccountIdents ==
    {[form |-> "raw", value |-> Sid1], [form |-> "profiles", value |-> Sid1],
     [form |-> "id", value |-> <<"b", "o", "b">>], [form |-> "raw", value |-> Sid2]}

\* only the id of the latest entry remembered
SeenLatest(seen, sid64) == {sid64}

\* input_parser.py line 32: seen.add(sid64)
SeenAdd(seen, sid64) == seen \cup {sid64}

AccountStart ==
    /\ a_pc = "parse"
    /\ a_lines = <<>>
    /\ a_entries = <<>>
    /\ a_seen = {}
    /\ a_i = 0
    /\ a_fetched = <<>>
    /\ a_merged = <<>>

AccountIdle ==
    /\ a_pc = "idle"
    /\ a_lines = <<>>
    /\ a_entries = <<>>
    /\ a_seen = {}
    /\ a_i = 0
    /\ a_fetched = <<>>
    /\ a_merged = <<>>

\* input_parser.py lines 17-33 for a "<label>: <ident>" line
AccountLine ==
    /\ a_pc = "parse"
    /\ Len(a_lines) < MaxLines
    /\ \E ident \in AccountIdents, resp \in VanityResponses :
          LET sid64 == normalize_to_steamid64(ident, resp)
              kept == Keeps(a_seen, sid64)
          IN  /\ a_lines' = Append(a_lines, [form |-> ident.form, sid64 |-> sid64])
              /\ a_seen' = IF kept THEN SeenAdd(a_seen, sid64) ELSE a_seen
              /\ a_entries' = IF kept
                               THEN Append(a_entries,
                                           [label |-> LineLabel(Len(a_lines) + 1),
                                            steamid64 |-> sid64])
                               ELSE a_entries
    /\ UNCHANGED <<a_pc, a_i, a_fetched, a_merged>>
    /\ UNCHANGED notAccount

\* input_parser.py line 35 and pipeline.py lines 33-49: the entries are
\* returned and, if there are any, the loop over them starts
AccountsParsed ==
    /\ a_pc = "parse"
    /\ a_entries # <<>>
    /\ a_pc' = "fetch"
    /\ a_i' = 1
    /\ UNCHANGED <<a_lines, a_entries, a_seen, a_fetched, a_merged>>
    /\ UNCHANGED notAccount

\* pipeline.py lines 49-71: the library of entry a_i is requested; it is
\* merged if it has games (lines 63-68) and reported as failed if not
AccountFetched ==
    /\ a_pc = "fetch"
    /\ a_i <= Len(a_entries)
    /\ a_fetched' = Append(a_fetched, a_entries[a_i].steamid64)
    /\ \E games \in BOOLEAN :
          a_merged' = IF games THEN Append(a_merged, a_entries[a_i].steamid64) ELSE a_merged
    /\ a_i' = a_i + 1
    /\ UNCHANGED <<a_pc, a_lines, a_entries, a_seen>>
    /\ UNCHANGED notAccount

\* pipeline.py line 72: the loop has ended
AccountsDone ==
    /\ a_pc = "fetch"
    /\ a_i > Len(a_entries)
    /\ a_pc' = "done"
    /\ UNCHANGED <<a_lines, a_entries, a_seen, a_i, a_fetched, a_merged>>
    /\ UNCHANGED notAccount

AccountNext ==
    \/ AccountLine
    \/ AccountsParsed
    \/ AccountFetched
    \/ AccountsDone

(***************************************************************************)
(* The specifications: one component runs, the others stay idle.           *)
(***************************************************************************)
Init == PipeStart /\ FetchIdle /\ SizeIdle /\ MetaIdle /\ ThrottleIdle /\ ReviewIdle /\ StandaloneIdle /\ NewsIdle /\ ResolveIdle /\ IdsFileIdle /\ OrderIdle /\ TimingIdle /\ AccountIdle

Spec == Init /\ [][Next]_vars

FetchInit == FetchStart /\ SizeIdle /\ MetaIdle /\ ThrottleIdle /\ PipeIdle /\ ReviewIdle /\ StandaloneIdle /\ NewsIdle /\ ResolveIdle /\ IdsFileIdle /\ OrderIdle /\ TimingIdle /\ AccountIdle

MetaInit == MetaStart /\ FetchIdle /\ SizeIdle /\ ThrottleIdle /\ PipeIdle /\ ReviewIdle /\ StandaloneIdle /\ NewsIdle /\ ResolveIdle /\ IdsFileIdle /\ OrderIdle /\ TimingIdle /\ AccountIdle

ThrottleInit == ThrottleStart /\ FetchIdle /\ SizeIdle /\ MetaIdle /\ PipeIdle /\ ReviewIdle /\ StandaloneIdle /\ NewsIdle /\ ResolveIdle /\ IdsFileIdle /\ OrderIdle /\ TimingIdle /\ AccountIdle

SpecThrottle == ThrottleInit /\ [][ThrottleNext]_vars

SpecMeta == MetaInit /\ [][MetaNext]_vars

SpecFetch == FetchInit /\ [][FetchNext]_vars

ReviewInit == ReviewStart /\ FetchIdle /\ SizeIdle /\ MetaIdle /\ ThrottleIdle /\ PipeIdle /\ StandaloneIdle /\ NewsIdle /\ ResolveIdle /\ IdsFileIdle /\ OrderIdle /\ TimingIdle /\ AccountIdle

SpecReview == ReviewInit /\ [][ReviewNext]_vars

StandaloneInit ==
    /\ StandaloneStart /\ FetchIdle /\ SizeIdle /\ MetaIdle /\ ThrottleIdle /\ PipeIdle
    /\ ReviewIdle /\ NewsIdle /\ ResolveIdle /\ IdsFileIdle /\ OrderIdle /\ TimingIdle /\ AccountIdle

SpecStandalone == StandaloneInit /\ [][StandaloneNext]_vars

\* every submitted call runs on a pool thread that is never starved, and
\* the calling thread keeps collecting
SpecStandaloneLive ==
    /\ SpecStandalone
    /\ \A g \in Games : WF_vars(Attempt(g)) /\ WF_vars(GiveUp(g)) /\ WF_vars(Collect(g))
    /\ WF_vars(Finish)

NewsInit ==
    /\ NewsStart /\ FetchIdle /\ SizeIdle /\ MetaIdle /\ ThrottleIdle /\ PipeIdle
    /\ ReviewIdle /\ StandaloneIdle /\ ResolveIdle /\ IdsFileIdle /\ OrderIdle /\ TimingIdle /\ AccountIdle

SpecNews == NewsInit /\ [][NewsNext]_vars

ResolveInit ==
    /\ ResolveStart /\ FetchIdle /\ SizeIdle /\ MetaIdle /\ ThrottleIdle /\ PipeIdle
    /\ ReviewIdle /\ StandaloneIdle /\ NewsIdle /\ IdsFileIdle /\ OrderIdle /\ TimingIdle /\ AccountIdle

SpecResolve == ResolveInit /\ [][ResolveNext]_vars

IdsFileInit ==
    /\ IdsFileStart /\ FetchIdle /\ SizeIdle /\ MetaIdle /\ ThrottleIdle /\ PipeIdle
    /\ ReviewIdle /\ StandaloneIdle /\ NewsIdle /\ ResolveIdle /\ OrderIdle /\ TimingIdle /\ AccountIdle

SpecIdsFile == IdsFileInit /\ [][IdsFileNext]_vars

OrderInit ==
    /\ OrderStart /\ FetchIdle /\ SizeIdle /\ MetaIdle /\ ThrottleIdle /\ PipeIdle
    /\ ReviewIdle /\ StandaloneIdle /\ NewsIdle /\ ResolveIdle /\ IdsFileIdle /\ TimingIdle /\ AccountIdle

SpecOrder == OrderInit /\ [][OrderNext]_vars

TimingInit ==
    /\ TimingStart /\ FetchIdle /\ SizeIdle /\ MetaIdle /\ ThrottleIdle /\ PipeIdle
    /\ ReviewIdle /\ StandaloneIdle /\ NewsIdle /\ ResolveIdle /\ IdsFileIdle /\ OrderIdle /\ AccountIdle

SpecTiming == TimingInit /\ [][TimingNext]_vars

AccountInit ==
    /\ AccountStart /\ FetchIdle /\ SizeIdle /\ MetaIdle /\ ThrottleIdle /\ PipeIdle
    /\ ReviewIdle /\ StandaloneIdle /\ NewsIdle /\ ResolveIdle /\ IdsFileIdle /\ OrderIdle
    /\ TimingIdle

SpecAccount == AccountInit /\ [][AccountNext]_vars

SizeInit == SizeStart /\ FetchIdle /\ MetaIdle /\ ThrottleIdle /\ PipeIdle /\ ReviewIdle /\ StandaloneIdle /\ NewsIdle /\ ResolveIdle /\ IdsFileIdle /\ OrderIdle /\ TimingIdle /\ AccountIdle

SpecSize == SizeInit /\ [][SizeNext]_vars

\* the parsed text is the single phrase "<label>: <num> <unit>" with a label
\* one of the three patterns recognises
OnePhrase(num, unit) ==
    /\ s_pc = "parsed"
    /\ Len(s_text.phrases) = 1
    /\ s_text.phrases[1].label \in {"Storage", "Hard Space", "free space"}
    /\ s_text.phrases[1].colon
    /\ s_text.phrases[1].num = num
    /\ s_text.phrases[1].unit = unit

\* C8 as stated: "10240 MB", "10 GB" and "0.01 TB" all normalize to 10.0 GB.
C8_AllNormalizeToTen ==
    /\ OnePhrase(<<"1", "0", "2", "4", "0">>, "MB") => s_result = Some(1000)
    /\ OnePhrase(<<"1", "0">>, "GB") => s_result = Some(1000)
    /\ OnePhrase(<<"0", ".", "0", "1">>, "TB") => s_result = Some(1000)

\* C8 (amended): inside a recognised phrase, "10240 MB" and "10 GB"
\* normalize to 10.0 GB and "0.01 TB" to 10.24 GB: MB / 1024 rounded to two
\* decimals, GB and GiB unchanged, TB * 1024.
C8_SizeNormalization ==
    /\ OnePhrase(<<"1", "0", "2", "4", "0">>, "MB") => s_result = Some(1000)
    /\ OnePhrase(<<"1", "0">>, "GB") => s_result = Some(1000)
    /\ OnePhrase(<<"0", ".", "0", "1">>, "TB") => s_result = Some(1024)
    /\ OnePhrase(<<"2", ".", "5">>, "GiB") => s_result = Some(250)
    /\ OnePhrase(<<"7", "0", "0">>, "mb") => s_result = Some(68)

C8_Witness ==
    /\ OnePhrase(<<"0", ".", "0", "1">>, "TB")
    /\ s_text.markup
    /\ s_result = Some(1024)

\* C4: a field (kind, release year, install size) that the details endpoint
\* resolved in step 1 keeps that value after the storefront fallback of step
\* 2, and is returned with it (a size of 0.0 is returned as absent), even
\* when the page states a different value.
C4_FirstWriterWins ==
    /\ m_pc \in {"return", "done"} =>
          /\ m_step1.app_type # None => m_loc.app_type = m_step1.app_type
          /\ m_step1.release_year # Absent => m_loc.release_year = m_step1.release_year
          /\ m_step1.size_gb # Absent => m_loc.size_gb = m_step1.size_gb
    /\ m_result # Absent =>
          /\ m_step1.app_type # None => m_result[1].app_type = m_step1.app_type
          /\ m_step1.release_year # Absent =>
                m_result[1].release_year = m_step1.release_year
          /\ m_step1.size_gb \notin {Absent, Some(0)} =>
                m_result[1].approx_install_size_gb = m_step1.size_gb

C4_Witness ==
    /\ m_pc = "done"
    /\ m_requests = <<"appdetails", "store_page">>
    /\ m_page # Absent
    /\ m_step1.release_year = Some(2019)
    /\ m_page[1].release_year = Some(2004)
    /\ m_step1.app_type = "game"
    /\ m_page[1].app_type = "dlc"
    /\ m_step1.size_gb = Some(250)
    /\ m_page[1].size_gb = Some(1024)
    /\ m_need_size_fallback
    /\ m_result[1].release_year = Some(2019)
    /\ m_result[1].delisted = Some(TRUE)

\* C5: with jitter 0, the N requests issued so far against a host class
\* span at least (N-1)*d, from the first request's start to the last
\* request's start.
C5_IssueSpacing ==
    t_jitter = 0 /\ t_hist.n >= 1 =>
        t_hist.last_issue - t_hist.first_issue >= (t_hist.n - 1) * t_min_delay[Observed]

\* the number of requests of one kind issued so far
CountOf(log, kind) == Cardinality({i \in 1..Len(log) : log[i] = kind})

\* C1: when the structured feed yields no item (or fails), exactly one
\* follow-up request to the embedded page is issued; when it yields an item,
\* none is issued.
C1_FallbackActivation ==
    /\ CountOf(f_requests, "html") <= 1
    /\ f_xml_games # <<>> => CountOf(f_requests, "html") = 0
    /\ f_pc = "done" =>
          /\ CountOf(f_requests, "xml") = 1
          /\ f_xml_games = <<>> => f_requests = <<"xml", "html">>
          /\ f_xml_games # <<>> => f_requests = <<"xml">>

C1_Witness ==
    /\ f_pc = "done"
    /\ f_xml_games = <<>>
    /\ f_requests = <<"xml", "html">>
    /\ f_result # <<>>

\* the appids a fetched library names
LibIds(games) == {games[i].appid : i \in 1..Len(games)}

RECURSIVE HoursIn(_, _)
\* the usage hours (tenths) a fetched library states for an appid
HoursIn(games, appid) ==
    IF games = <<>> THEN 0
    ELSE (IF Head(games).appid = appid THEN Head(games).hours_on_record ELSE 0)
         + HoursIn(Tail(games), appid)

\* the accounts whose fetch returned the appid so far
FetchedBy(appid) == {sid \in AllSids : appid \in LibIds(p_libs[sid])}

RECURSIVE SumHours(_, _)
SumHours(sids, appid) ==
    IF sids = {} THEN 0
    ELSE LET sid == CHOOSE x \in sids : TRUE
         IN  HoursIn(p_libs[sid], appid) + SumHours(sids \ {sid}, appid)

\* the aggregation pass is over
Aggregated == p_pc \in {"meta", "enrich", "rows", "raised"}

\* C2: after aggregation, an appid that exactly two accounts' fetched
\* libraries name has an owner set of size 2 and, as total hours, the sum of
\* the hours the two libraries state for it.
C2_TwoOwnersSum ==
    Aggregated =>
        \A appid \in AppIds :
            Cardinality(FetchedBy(appid)) = 2 =>
                /\ DictHas(p_combined, appid)
                /\ Cardinality(DictGet(p_combined, appid).owners) = 2
                /\ DictGet(p_combined, appid).hours = SumHours(FetchedBy(appid), appid)

\* item 1 is owned by both accounts, 3h and 2h, and item 2 by one
C2_Witness ==
    /\ p_pc = "meta"
    /\ HoursIn(p_libs[Sid1], <<"1">>) = 30
    /\ HoursIn(p_libs[Sid2], <<"1">>) = 20
    /\ DictGet(p_combined, <<"1">>).hours = 50
    /\ DictHas(p_combined, <<"2">>)

\* C3: after every step of the aggregation pass (and ever after), each appid
\* in the aggregation map has a non-empty owner set whose size is the number
\* of accounts whose fetch returned that appid so far.
C3_OwnersMatchFetches ==
    \A i \in 1..Len(p_combined) :
        /\ p_combined[i].value.owners # {}
        /\ Cardinality(p_combined[i].value.owners)
               = Cardinality(FetchedBy(p_combined[i].key))

\* during the pass: one appid with two owners, one with a single owner
C3_Witness ==
    /\ p_pc = "fetch"
    /\ \E i, j \in 1..Len(p_combined) :
          /\ Cardinality(p_combined[i].value.owners) = 2
          /\ Cardinality(p_combined[j].value.owners) = 1

\* a target's metadata is flagged delisted
SomeDelisted == \E i \in 1..Len(p_targets) : IsDelisted(DictGet(p_metas, p_targets[i]))

HasRow(appid) == \E i \in 1..Len(p_rows) : p_rows[i].appid = appid

\* C6: when a run with a delisted item has ended, it ended without an
\* exception, no delisted item has a row, and every other item has one.
C6_DelistedExcluded ==
    p_pc \in {"raised", "done"} /\ SomeDelisted =>
        /\ p_error = ""
        /\ \A i \in 1..Len(p_targets) :
              HasRow(p_targets[i]) <=> ~IsDelisted(DictGet(p_metas, p_targets[i]))

\* account A = {1: Foo, 3h}, account B = {1: Foo, 2h; 2: Bar, 5h}, nothing delisted
Scenario ==
    /\ Len(p_entries) = 2
    /\ p_libs[p_entries[1].steamid64]
           = <<[appid |-> <<"1">>, name |-> Foo, hours_on_record |-> 30]>>
    /\ p_libs[p_entries[2].steamid64]
           = <<[appid |-> <<"1">>, name |-> Foo, hours_on_record |-> 20],
               [appid |-> <<"2">>, name |-> Bar, hours_on_record |-> 50]>>
    /\ ~SomeDelisted

\* the columns of the rows the scenario names
RowsCore(rows) ==
    [i \in 1..Len(rows) |->
        [appid |-> rows[i].appid, name |-> rows[i].name, owners |-> rows[i].owners,
         hours |-> rows[i].combined_hours_on_record]]

\* C7: when the scenario's run has ended, it returned the rows
\* {1, Foo, owners 2, 5.0h}, {2, Bar, owners 1, 5.0h}, in this order.
C7_ScenarioRows ==
    p_pc \in {"raised", "done"} /\ Scenario =>
        /\ p_error = ""
        /\ RowsCore(p_rows)
               = <<[appid |-> <<"1">>, name |-> Foo, owners |-> 2, hours |-> 50],
                   [appid |-> <<"2">>, name |-> Bar, owners |-> 1, hours |-> 50]>>

\* C9: once an account is parsed and an item aggregated, no exception ends
\* the run.
C9_NeverRaises ==
    p_entries # <<>> /\ p_combined # <<>> => p_pc # "raised"

\* C10 as stated: at the abort for want of a valid entry, no request has
\* been issued.
C10_NoRequestBeforeAbort ==
    p_pc = "fatal_no_entries" => p_req = NoRequests

\* C10 (amended): a run that parses no valid entry aborts (or has ended
\* while parsing, in the ValueError of a line urlparse rejects), and at the
\* abort the only requests issued are the vanity lookups, one for each
\* /id/ line.
C10_OnlyVanityLookups ==
    /\ p_entries = <<>> =>
          p_pc \in {"configure", "parse", "parse_raised", "fatal_no_entries"}
    /\ p_pc = "parse_raised" => WorkRequests(p_req) = 0
    /\ p_pc = "fatal_no_entries" =>
          /\ p_entries = <<>>
          /\ WorkRequests(p_req) = 0
          /\ p_req.vanity = p_vanity_lines

\* the abort after two vanity names that did not resolve
C10_Witness ==
    /\ p_pc = "fatal_no_entries"
    /\ p_req.vanity = 2

\* C11: a run whose accounts all yield no items aborts after the library
\* stage, and no metadata, review or news request is ever issued in it: the
\* later stages are entered only with a non-empty aggregation map.
C11_NoGamesAborts ==
    /\ p_pc \in {"meta", "enrich", "rows", "raised"} => p_combined # <<>>
    /\ p_pc = "fatal_no_games" =>
          /\ p_combined = <<>>
          /\ p_error = "SystemExit"
          /\ p_req.appdetails + p_req.store_page + p_req.reviews + p_req.news = 0

\* two accounts, both fetched through both sources, neither with an item
C11_Witness ==
    /\ p_pc = "fatal_no_games"
    /\ Len(p_failed) = 2
    /\ p_req.xml = 2
    /\ p_req.html = 2

\* a list of library items, each with an appid and a name
IsGameList(games) ==
    \A i \in 1..Len(games) : games[i].appid # <<>> /\ games[i].name # <<>>

\* C12: no exception leaves get_owned_games_for_steamid: whatever the two
\* sources do, the call is never ended by an exception, it can always take
\* its next step until it returns, and what it returns is a list.
C12_NeverRaises ==
    /\ f_pc # "raised"
    /\ f_pc \in {"try_xml", "check", "return"} => ENABLED FetchNext
    /\ f_pc = "done" => IsGameList(f_result)

\* both sources raised and the call returned the empty list
C12_Witness ==
    /\ f_pc = "done"
    /\ f_raised = <<TRUE, TRUE>>
    /\ f_result = <<>>

\* C13: fetch_app_meta is never ended by an exception and returns a record.
\* A failure in the details step keeps what the statements before it
\* resolved and leaves the rest absent for the storefront step; a failure
\* of the storefront step leaves every field as the details step left it.
C13_MetaNeverRaises ==
    /\ m_pc \in {"step1", "step2", "return"} => ENABLED MetaNext
    /\ m_pc = "done" => m_result # Absent
    /\ m_pc \in {"step2", "return", "done"} =>
          /\ m_fail1.at = "request" => m_step1 = MetaLocals0
          /\ m_fail1.at = "release_date" =>
                /\ m_step1.app_type = m_fail1.type
                /\ m_step1.release_year = Absent
                /\ m_step1.size_gb = Absent
          /\ m_fail1.at = "pc_requirements" =>
                /\ m_step1.app_type = m_fail1.type
                /\ m_step1.release_year = m_fail1.year
                /\ m_step1.size_gb = Absent
    /\ m_pc \in {"return", "done"} /\ m_page = Absent => m_loc = m_step1
    /\ m_pc = "done" /\ m_page = Absent => m_result[1] = MetaReturn(m_step1)

\* the details step raised at the requirements after resolving kind and
\* year, the storefront request failed, and the record has kind and year
C13_Witness ==
    /\ m_pc = "done"
    /\ m_fail1.at = "pc_requirements"
    /\ m_requests = <<"appdetails", "store_page">>
    /\ m_page = Absent
    /\ m_result[1].app_type = "game"
    /\ m_result[1].release_year = Some(2019)
    /\ m_result[1].approx_install_size_gb = Absent
    /\ m_result[1].delisted = Absent

\* C14: the recent-window query is issued first; the all-time query is
\* issued only after a recent query that failed or counted no reviews; the
\* "No reviews" record is returned only after an all-time query that failed
\* or counted no reviews.
Counted(q) == q # Absent /\ q[1].status = "ok" /\ q[1].total_reviews > 0

FailedOrZero(q) ==
    /\ q # Absent
    /\ \/ q[1].status # "ok"
       \/ q[1].total_reviews = 0

C14_RecentThenOverall ==
    /\ rv_requests \in {<<>>, <<"recent">>, <<"recent", "overall">>}
    /\ rv_pc \in {"overall", "done"} => rv_recent # Absent
    /\ Len(rv_requests) = 2 => FailedOrZero(rv_recent)
    /\ rv_pc = "done" /\ rv_result = Some(NoReviews) =>
          /\ rv_requests = <<"recent", "overall">>
          /\ FailedOrZero(rv_overall)

\* the recent query counted nothing, the all-time query failed
C14_Witness ==
    /\ rv_pc = "done"
    /\ rv_recent # Absent /\ rv_recent[1].status = "ok" /\ rv_recent[1].total_reviews = 0
    /\ rv_overall # Absent /\ rv_overall[1].status = "http_error"
    /\ rv_result = Some(NoReviews)

\* C15: when the query whose answer is used counted reviews, the percent
\* (in hundredths) is the hundredth nearest to positive/total*100, so 0 for
\* no positives; when neither query counted reviews the percent is absent.
NearestHundredth(p, pos, total) ==
    LET d == p * total - pos * 10000
    IN  (IF d < 0 THEN -d ELSE d) * 2 <= total

C15_PercentPositive ==
    rv_pc = "done" =>
        LET chosen == IF Counted(rv_recent) THEN rv_recent ELSE rv_overall
            pct == rv_result[1].recent_percent_positive
        IN  /\ Counted(chosen) =>
                  /\ pct # Absent
                  /\ NearestHundredth(pct[1], chosen[1].total_positive,
                                      chosen[1].total_reviews)
                  /\ chosen[1].total_positive = 0 => pct = Some(0)
            /\ ~Counted(rv_recent) /\ ~Counted(rv_overall) => pct = Absent

\* the recent query failed, the all-time query counted 2 positives of 3
C15_Witness ==
    /\ rv_pc = "done"
    /\ ~Counted(rv_recent)
    /\ Counted(rv_overall)
    /\ rv_overall[1].total_reviews = 3 /\ rv_overall[1].total_positive = 2
    /\ rv_result[1].recent_percent_positive = Some(6667)

\* C16 as stated: at most Retries requests per game, another request only
\* after a 429/503 status or a transport error, no request after an answer
\* that was used.
RequestsBounded ==
    \A g \in Games : Len(sa_task[g].hist) <= Retries

StopsAtSuccess ==
    \A g \in Games : \A i \in 1..Len(sa_task[g].hist) :
        sa_task[g].hist[i] = "ok" =>
            /\ i = Len(sa_task[g].hist)
            /\ sa_task[g].pc \in {"returned", "collected"}
            /\ sa_task[g].result # Some(Blanks)

RetriedAfter(kinds) ==
    \A g \in Games : \A i \in 1..(Len(sa_task[g].hist) - 1) :
        sa_task[g].hist[i] \in kinds

C16_RetriesOnly429OrTransport ==
    RequestsBounded /\ StopsAtSuccess /\ RetriedAfter({"429_503", "transport"})

\* C16, amended: at most Retries requests per game; another request follows
\* only an answer the handler catches (a transport error, any 4xx/5xx
\* status, a body that is not JSON); no request follows an answer that was
\* used; and every call comes to an end.
C16_RetryPolicy ==
    /\ [](RequestsBounded /\ StopsAtSuccess /\ RetriedAfter(CaughtKinds))
    /\ <>(\A g \in Games : sa_task[g].pc # "running")

\* a call that was answered 404, then with a body that is no JSON, then well
C16_Witness ==
    /\ sa_task[1].hist = <<"http_error", "bad_json", "ok">>
    /\ sa_task[1].pc = "returned"
    /\ sa_task[1].result[1].recent_percent_positive = Some(6667)

\* C17: no exception leaves fetch_recent_reviews_for_app or
\* enrich_with_reviews, whatever the responses are, and a call whose
\* attempts are used up returns the record with every field absent.
C17_NeverFails ==
    /\ sa_pc # "raised"
    /\ \A g \in Games :
          /\ sa_task[g].pc # "raised"
          /\ sa_task[g].pc \in {"returned", "collected"} /\ sa_task[g].attempt = Retries =>
                sa_task[g].result = Some(Blanks)

\* C18: the returned year is that of the latest timestamp among the items
\* marked as an update; when no item is so marked, that of the latest
\* timestamp of the feed; nothing is returned when the request failed or
\* the feed is empty. (An item only has a timestamp when its date is set.)
Stamped(news) == {i \in 1..Len(news.items) : news.items[i].date > 0}

Updates(news) == {i \in Stamped(news) : news.items[i].update}

LatestOf(news, among, i) ==
    /\ i \in among
    /\ \A j \in among : news.items[j].date <= news.items[i].date

C18_LastUpdateYear ==
    n_pc = "done" =>
        LET news == n_news[1]
        IN  /\ news.status # "ok" \/ news.items = <<>> => n_result = Absent
            /\ news.status = "ok" /\ Updates(news) # {} =>
                  \E i \in Updates(news) :
                      /\ LatestOf(news, Updates(news), i)
                      /\ n_result = Some(YearOfTimestamp(news.items[i].date))
            /\ news.status = "ok" /\ Updates(news) = {} /\ Stamped(news) # {} =>
                  \E i \in Stamped(news) :
                      /\ LatestOf(news, Stamped(news), i)
                      /\ n_result = Some(YearOfTimestamp(news.items[i].date))

\* the newest item is no update, an older one is: the older year is returned
C18_Witness ==
    /\ n_pc = "done"
    /\ n_news[1].items = <<[date |-> 1620000000, update |-> FALSE],
                           [date |-> 1560000000, update |-> TRUE]>>
    /\ n_result = Some(2019)

\* C19: a call whose argument is a URL of neither recognised shape, whose
\* lookup request failed, or whose lookup response has no identifier
\* element, returns nothing and does not raise.
NoRecognisedShape(ident) ==
    \/ ident.form \in {"community", "url", "unparsable"}
    \/ ident.form = "profiles" /\ ~isdigit(ident.value)

C19_AbsentNeverRaises ==
    \A i \in 1..Len(z_calls) :
        LET c == z_calls[i]
        IN  /\ c.outcome # "raised"
            /\ /\ c.outcome = "returned"
               /\ \/ NoRecognisedShape(c.ident)
                  \/ c.requests = 1 /\ c.resp.status # "ok"
                  \/ c.requests = 1 /\ c.resp.status = "ok" /\ c.resp.steamID64 = <<>>
               => c.result = <<>>

\* C20: a call for a numeric id or for a /profiles/<numeric> URL issues no
\* request; a call for an /id/<vanity> URL issues exactly one, the lookup.
C20_LookupOnlyForVanity ==
    \A i \in 1..Len(z_calls) :
        LET c == z_calls[i]
        IN  /\ c.ident.form \in {"raw", "profiles"} /\ isdigit(c.ident.value) =>
                  /\ c.requests = 0
                  /\ c.outcome = "returned"
                  /\ c.result = c.ident.value
            /\ c.ident.form = "id" =>
                  /\ c.outcome \in {"lookup", "returned"}
                  /\ c.outcome = "returned" => c.requests = 1
                  /\ c.outcome = "lookup" => c.requests = 0 /\ ENABLED Lookup

\* a /profiles/<numeric> URL resolved without a request, then a vanity URL
\* resolved by one lookup
C20_Witness ==
    /\ Len(z_calls) = 2
    /\ z_calls[1].ident = [form |-> "profiles", value |-> Sid2]
    /\ z_calls[1].requests = 0 /\ z_calls[1].result = Sid2
    /\ z_calls[2].ident.form = "id"
    /\ z_calls[2].requests = 1 /\ z_calls[2].result = Sid1

\* C21: every request a run issues, to whichever endpoint, is preceded by
\* a wait of the throttle on its host class.
C21_AllRequestsThrottled ==
    \A e \in Endpoints : p_req[e] > 0 => WaitsOn(e) # "none"

\* C22: the entries have pairwise distinct ids; the k-th entry carries the
\* id that was the k-th to occur for the first time in the file and the
\* label of the line where it first occurred; a later line resolving to an
\* id already seen adds no entry.
FirstLineOf(sid64) ==
    CHOOSE n \in 1..Len(q_lines) :
        /\ q_lines[n].sid64 = sid64
        /\ \A m \in 1..(n - 1) : q_lines[m].sid64 # sid64

ResolvedIds == {q_lines[n].sid64 : n \in 1..Len(q_lines)} \ {<<>>}

C22_FirstOccurrenceWins ==
    /\ \A i, j \in 1..Len(q_out) : i # j => q_out[i].steamid64 # q_out[j].steamid64
    /\ {q_out[i].steamid64 : i \in 1..Len(q_out)} = ResolvedIds
    /\ \A i \in 1..Len(q_out) :
          q_out[i].label = q_lines[FirstLineOf(q_out[i].steamid64)].line.label
    /\ \A i, j \in 1..Len(q_out) :
          i < j => FirstLineOf(q_out[i].steamid64) < FirstLineOf(q_out[j].steamid64)

\* three lines, the third naming the account of the first by its profile URL
C22_Witness ==
    /\ q_pc = "done"
    /\ Len(q_lines) = 3
    /\ q_lines[1].sid64 = Sid2 /\ q_lines[1].line.ident.form = "raw"
    /\ q_lines[2].sid64 = Sid1
    /\ q_lines[3].sid64 = Sid2 /\ q_lines[3].line.ident.form = "profiles"
    /\ q_out = <<[label |-> "A", steamid64 |-> Sid2], [label |-> "B", steamid64 |-> Sid1]>>

\* C23: a blank line, a comment line and a malformed line (no ":", an empty
\* label or identifier, an identifier that does not resolve) add no entry
\* and do not end the call: the lines after it are still read, and every
\* line that resolves has its id among the entries.
Malformed(l) ==
    \/ l.line.kind \in {"blank", "comment", "nocolon"}
    \/ ~ReachesResolver(l.line)
    \/ l.sid64 = <<>>

C23_MalformedLinesSkipped ==
    /\ q_pc \in {"read", "done"}
    /\ \A n \in 1..Len(q_lines) :
          /\ Malformed(q_lines[n]) =>
                \A i \in 1..Len(q_out) : q_out[i].label # LineLabel(n)
          /\ ~Malformed(q_lines[n]) =>
                \E i \in 1..Len(q_out) : q_out[i].steamid64 = q_lines[n].sid64

\* C24: when a run has ended, it ended without an exception and every
\* aggregated item that is not flagged delisted has exactly one row.
RowsOf(appid) == {i \in 1..Len(p_rows) : p_rows[i].appid = appid}

C24_EveryItemHasOneRow ==
    p_pc \in {"raised", "done"} =>
        /\ p_error = ""
        /\ \A i \in 1..Len(p_combined) :
              LET appid == p_combined[i].key
              IN  ~IsDelisted(DictGet(p_metas, appid)) => Cardinality(RowsOf(appid)) = 1

\* C25: metadata tasks run only when every library fetch has ended, review
\* and recency tasks only when every item has its metadata, and rows are
\* built only when every target has its review and recency results.
C25_StagesInOrder ==
    /\ p_req.appdetails + p_req.store_page > 0 \/ p_pc = "meta" =>
          /\ p_i > Len(p_entries) \/ p_pc \in {"rows", "raised"}
          /\ p_req.xml = Len(p_entries)
    /\ p_req.reviews + p_req.news > 0 \/ p_pc = "enrich" =>
          /\ p_pc \in {"enrich", "rows", "raised"}
          /\ \A i \in 1..Len(p_combined) : DictHas(p_metas, p_combined[i].key)
    /\ p_rows # <<>> \/ p_pc = "rows" =>
          /\ p_pc \in {"rows", "raised"}
          /\ \A i \in 1..Len(p_targets) :
                /\ DictHas(p_enrichments, p_targets[i])
                /\ DictHas(p_last_update_years, p_targets[i])

\* two accounts fetched, two items with metadata and reviews, two rows built
C25_Witness ==
    /\ p_pc = "rows"
    /\ Len(p_rows) = 2
    /\ p_req.xml = 2
    /\ p_req.appdetails = 2
    /\ p_req.reviews = 3

\* C26: for one aggregation map, the sorted rows are the same whatever the
\* order in which the workers completed.
Orders(rows) ==
    {p \in [1..Len(rows) -> 1..Len(rows)] : \A i, j \in 1..Len(rows) : i # j => p[i] # p[j]}

C27_LockOnlyForBookkeeping ==
    /\ t_lock # 0 => t_thread[t_lock].pc = "crit"
    /\ \A t \in Threads : t_thread[t].pc \in {"idle", "lock", "wait"} => t_lock # t

\* one thread sleeps while the other holds the lock
C27_Witness ==
    \E t, u \in Threads :
        /\ t # u
        /\ t_thread[t].pc = "wait"
        /\ t_thread[t].wake > clock
        /\ t_lock = u

\* C28: in both enrichment stages, the items being processed at one time
\* are at most max(1, configured worker count).
C28_BoundedWorkers ==
    p_pc \in {"meta", "enrich"} =>
        /\ p_cfg.workers >= 1 => Cardinality(p_running) <= p_cfg.workers
        /\ p_cfg.workers < 1 => Cardinality(p_running) <= 1

\* a worker count of 0: one item is processed while another waits
C28_Witness ==
    /\ p_pc = "meta"
    /\ p_cfg.workers = 0
    /\ Cardinality(p_running) = 1
    /\ p_queue # <<>>

\* C29: when the details step ran to its end and both requirement blocks
\* state a size, the install size it resolves is the larger of the two.
C29_LargerOfBlocks ==
    /\ m_pc \in {"step2", "return", "done"}
    /\ m_fail1.at = "none"
    /\ m_fail1.larger # Absent
    => m_step1.size_gb = m_fail1.larger

\* C30: an account whose primary and fallback fetch both yield no items is
\* appended to the failed-accounts list with its reason, is not counted as an
\* ok account, leaves the aggregation map unchanged, and the run goes on to
\* the next account; an account that yields items is never added to the list.
C30_FailedAccountFrame ==
    [][p_pc = "fetch" /\ p_i <= Len(p_entries) /\ p_i' = p_i + 1
       => LET e == p_entries[p_i]
          IN  IF p_libs'[e.steamid64] = <<>>
              THEN /\ p_failed' = Append(p_failed, FailedLine(e))
                   /\ p_failed'[Len(p_failed')].msg # ""
                   /\ p_ok_count' = p_ok_count
                   /\ p_combined' = p_combined
                   /\ p_pc' = "fetch"
                   /\ p_error' = p_error
              ELSE /\ p_failed' = p_failed
                   /\ p_ok_count' = p_ok_count + 1]_vars

\* the first account failed, the second was merged after it
C30_Witness ==
    /\ p_pc = "fetch"
    /\ p_i = 3
    /\ Len(p_failed) = 1
    /\ p_failed[1].steamid64 = p_entries[1].steamid64
    /\ p_libs[p_entries[1].steamid64] = <<>>
    /\ p_ok_count = 1
    /\ p_combined # <<>>

\* C31: for every interleaving of concurrent wait calls on one host class,
\* each reservation stored in last[kind] is at least min_delay[kind] later
\* than the value it replaces: reservations never overlap and never move
\* backward.
C31_ReservationsSpaced ==
    [][\A t \in Threads :
          t_thread[t].pc = "crit" /\ t_thread'[t].pc = "wait"
          => LET kind == t_thread[t].kind
             IN  /\ t_last'[kind] >= t_last[kind] + t_min_delay[kind]
                 /\ \A k \in Kinds \ {kind} : t_last'[k] = t_last[k]]_vars

\* both threads sleep on a reservation for the store host class, the later
\* one the full delay after the earlier one
C31_Witness ==
    /\ t_thread[1].pc = "wait" /\ t_thread[1].kind = "store"
    /\ t_thread[2].pc = "wait" /\ t_thread[2].kind = "store"
    /\ t_min_delay["store"] = 2
    /\ t_thread[2].wake >= t_thread[1].wake + 2
    /\ t_thread[1].wake > clock
    /\ t_last["store"] = t_thread[2].wake

\* C32: the accumulated per-stage timings equal the sums of their per-item
\* durations under every interleaving of the pool threads (no state but the
\* connection pool and the throttle is written by more than one of them).
C32_TimingsAreSums ==
    e_pc = "done" => /\ e_timings.reviews = e_sums.reviews
                     /\ e_timings.last_update = e_sums.last_update

\* C33: from the start of the metadata stage until the rows are built the
\* aggregation map is unchanged: no key is added or removed, and no entry's
\* name, owner set or total hours changes.
C33_MapReadOnlyAfterFetch ==
    [][\/ p_pc \in {"meta", "enrich", "rows"}
       \/ p_pc = "fetch" /\ p_pc' = "meta"
       => p_combined' = p_combined]_vars

\* every target has its row, built from a map of two items, one of them
\* owned by both accounts
C33_Witness ==
    /\ p_pc = "rows"
    /\ p_i > Len(p_targets)
    /\ Len(p_combined) = 2
    /\ Len(p_rows) = 2
    /\ \E i \in 1..2 : Cardinality(p_combined[i].value.owners) = 2
    /\ \A i \in 1..2 : p_rows[i].owners = Cardinality(DictGet(p_combined, p_rows[i].appid).owners)

\* how often an id occurs in a sequence of ids
Occurrences(ids, sid64) == Cardinality({i \in 1..Len(ids) : ids[i] = sid64})

\* C34: within one run each canonical account id has its library fetched and
\* merged at most once, whatever the file, a file that names one account
\* several times (as numeric id, profile URL or vanity URL) included; when
\* the loop has ended, every id a line resolved to was fetched exactly once.
C34_EachAccountFetchedOnce ==
    /\ \A sid64 \in AllSids :
          /\ Occurrences(a_fetched, sid64) <= 1
          /\ Occurrences(a_merged, sid64) <= Occurrences(a_fetched, sid64)
    /\ a_pc = "done" =>
          \A k \in 1..Len(a_lines) :
              a_lines[k].sid64 # <<>> => Occurrences(a_fetched, a_lines[k].sid64) = 1

\* one account named as numeric id, as profile URL and as vanity URL: one
\* entry, one fetch, one merge
C34_Witness ==
    /\ a_pc = "done"
    /\ Len(a_lines) = 3
    /\ \A k \in 1..3 : a_lines[k].sid64 = Sid1
    /\ {a_lines[k].form : k \in 1..3} = {"raw", "profiles", "id"}
    /\ a_fetched = <<Sid1>>
    /\ a_merged = <<Sid1>>

\* C35: every library item the fetcher produces has usage hours >= 0, for
\* every usage text the upstream sources can return (so that every total
\* the aggregation pass builds from them is >= 0 and never decreases).
C35_HoursNeverNegative ==
    \A i \in 1..Len(f_result) : f_result[i].hours_on_record >= 0

\* C36: every id identity resolution produces (every result that makes
\* parse_ids_file add an entry) is made of digits only, an id read from a
\* vanity lookup response included.
C36_CanonicalIdIsNumeric ==
    \A i \in 1..Len(z_calls) :
        z_calls[i].outcome = "returned" /\ z_calls[i].result # <<>>
        => isdigit(z_calls[i].result)

\* C37: every item the library fetcher returns, from the structured feed or
\* from the embedded page, has a non-blank id and a non-blank name (source
\* entries with a blank id or name are dropped).
C37_ItemsHaveIdAndName ==
    \A i \in 1..Len(f_result) :
        /\ Strip(f_result[i].appid) # <<>>
        /\ Strip(f_result[i].name) # <<>>

\* C38: fetch_games_html_rg does not raise but returns the empty list, both
\* when neither the strict nor the loose search finds the blob and when the
\* blob parses neither as it is nor after the one repair.
C38_BlobFailuresNotRaised ==
    /\ f_html # Absent
    /\ f_html[1].status = "ok"
    /\ f_html[1].blob = "none" \/ f_html[1].json = "invalid"
    => /\ ~f_raised[Len(f_raised)]
       /\ f_games = <<>>

\* C39: metadata resolution reports a release year only for an item the
\* details endpoint does not flag as coming soon, and only a year in the
\* range 1970..2100.
C39_YearOnlyWhenReleased ==
    m_result # Absent /\ m_result[1].release_year # Absent =>
        /\ ~m_fail1.coming_soon
        /\ m_result[1].release_year[1] \in 1970..2100

\* how often a fetched library names an appid
TimesIn(games, appid) == Cardinality({i \in 1..Len(games) : games[i].appid = appid})

\* C40: when one account's fetched list names an appid k times (k >= 2), the
\* account is in the item's owner set once (the set holds each account that
\* fetched the item, and nothing else) and all k usage values are part of
\* the item's total hours.
C40_RepeatedItemCountsOnce ==
    \A sid \in AllSids, appid \in AppIds :
        TimesIn(p_libs[sid], appid) >= 2 =>
            /\ DictHas(p_combined, appid)
            /\ DictGet(p_combined, appid).owners = FetchedBy(appid)
            /\ sid \in DictGet(p_combined, appid).owners
            /\ DictGet(p_combined, appid).hours = SumHours(FetchedBy(appid), appid)
            /\ DictGet(p_combined, appid).hours >= HoursIn(p_libs[sid], appid)

\* one account, its list naming item 1 twice (2h and 0.5h): one owner, 2.5h
C40_Witness ==
    /\ TimesIn(p_libs[Sid1], <<"1">>) = 2
    /\ p_libs[Sid2] = <<>>
    /\ DictGet(p_combined, <<"1">>).owners = {Sid1}
    /\ DictGet(p_combined, <<"1">>).hours = 25
    /\ p_ok_count = 1

====
